---- MODULE Spec2Model ----
(***************************************************************************)
(* Playlist transfer engine of thatsawrap (src/backend): the credential    *)
(* records kept in the Flask session (services/base.py), the provider      *)
(* adapters (services/*_service.py), the transfer orchestrator             *)
(* (services/transfer_service.py) and the progress store                   *)
(* (utils/helpers.py).                                                     *)
(*                                                                         *)
(* Encoding.  Python's None, '' and 0 are all falsy and the code only ever *)
(* tests them with `not x`: they are the single value NONE.  Tokens,       *)
(* identifiers and timestamps are positive integers (seconds for time).    *)
(***************************************************************************)
EXTENDS Integers, Sequences, FiniteSets, TLC

VARIABLES
    session,            \* flask session: provider -> credential record
    now,                \* time.time(), in seconds
    ticks,              \* number of clock advances so far
    auths,              \* number of authorization callbacks so far
    last,               \* the last get_valid_token call: its input and its outcome
    cleared,            \* providers disconnected since their last authorization
    pc,                 \* position of the /transfer request being handled
    http,               \* HTTP status the /transfer route answered (0: none yet)
    target,             \* target_service_id of the request
    liked,              \* the request names the liked-songs pseudo-playlist
    user_id,            \* progress key computed by the route
    runs,               \* the transfers started so far: target and source of each
    headers,            \* source token put in the headers of the listing requests
    pages,              \* listing pages fetched so far by get_playlist_tracks
    seen,               \* listing items received so far, null entries included
    received,           \* the 200 page responses got so far: their items and next
    tracks,             \* local `tracks` of get_playlist_tracks / transfer_playlist
    playlist_id_dest,   \* identifier returned by create_playlist
    idx,                \* loop index of transfer_playlist (0-based)
    track_id,           \* identifier returned by search_track for tracks[idx]
    added_count,        \* local `added_count`
    not_found,          \* local `not_found`
    result,             \* dict returned by transfer_playlist (NoResult: none)
    transfer_progress,  \* utils/helpers.py: the progress store (a dict)
    calls,              \* provider API requests sent since the last loop head
    sent,               \* number of adapter calls made by the transfers, by kind
    written,            \* percentages this transfer wrote to the store, in order
    outcomes,           \* what the destination answered for each track, in order
    issued,             \* search_track / add_track_to_playlist calls made, in order
    progress_lock,      \* utils/helpers.py: the thread holding progress_lock
    heap,               \* the dicts set_progress has built, by order of creation
    bound,              \* the dict transfer_progress binds to the key (0: none)
    writer,             \* the thread of the transfer: its set_progress calls
    readers,            \* the threads of the progress polls
    query,              \* a text given to sanitize_search_query, and what it gave
    racers,             \* the threads of two /transfer requests of one user key
    polled              \* the last answer of /transfer-progress

tokVars == <<session, now, ticks, auths, last, cleared>>

reqIds == <<target, liked, user_id, runs>>

reqVars == <<pc, http, reqIds>>

srcVars == <<headers, pages, seen, received, tracks>>

loopVars == <<playlist_id_dest, idx, track_id, added_count, not_found, result>>

obsVars == <<transfer_progress, calls, sent, written, outcomes, issued>>

pollVars == <<progress_lock, heap, bound, writer, readers>>

watchVars == <<racers, polled>>

sideVars == <<pollVars, query, watchVars>>

xferVars == <<reqVars, srcVars, loopVars, obsVars, sideVars>>

vars == <<tokVars, xferVars>>

----------------------------------------------------------------------------
(* Bounds of the model *)

MaxToken == 2           \* providers hand out tokens 1..MaxToken
MaxTicks == 2           \* clock advances explored
MaxAuths == 1           \* authorization callbacks explored
MaxPages == 2           \* pages of a source listing
MaxItems == 3           \* items of a source listing, null entries included
MaxReaders == 2         \* threads polling the progress of one key
MaxText == 5            \* characters of a text given to sanitize_search_query
MaxRuns == 2            \* /transfer requests handled one after the other

(* Program constants *)

NONE == 0
RefreshMargin == 300            \* base.py:171  time.time() + 300
DefaultExpiresIn == 3600        \* base.py:71   save_tokens(..., expires_in=3600)
QobuzExpiresIn == 31536000      \* auth_routes.py:105  qobuz_login
CheckpointEvery == 20           \* transfer_service.py:67  idx % 20 == 0
NotFoundShown == 10             \* transfer_service.py:99  not_found[:10]

Providers == {"spotify", "tidal", "qobuz"}
TokenProviders == {"tidal"}

Tokens == 1..MaxToken

NoRecord == [token |-> NONE, refresh |-> NONE, expires |-> NONE]

----------------------------------------------------------------------------
(* services/base.py: the credential record and its refresh *)

\* the bug of writing the refresh token whatever it is
save_tokens_overwriting(rec, access_token, refresh_token, expires_in, t) ==
    [token |-> access_token, refresh |-> refresh_token, expires |-> t + expires_in]

\* save_tokens: the refresh token is written only when a truthy one is given
save_tokens(rec, access_token, refresh_token, expires_in, t) ==
    [token   |-> access_token,
     refresh |-> IF refresh_token # NONE THEN refresh_token ELSE rec.refresh,
     expires |-> t + expires_in]

\* the bug of popping the access token and the expiry only
clear_tokens_keeping_refresh(rec) == [rec EXCEPT !.token = NONE, !.expires = NONE]

\* clear_tokens: the three session keys are popped
clear_tokens(rec) == NoRecord

\* the lifetimes a token response declares in expires_in: none, or one that is
\* not the default
Lifetimes == {NONE, 2 * DefaultExpiresIn}

\* The answers the token endpoint can give to a refresh request: a 200 whose
\* body has an access_token (or none), a refresh_token key (or none, or a
\* null one) and an expires_in (or none), a non-200 status, or an exception of
\* requests.post / .json().
RefreshResponses ==
    [st : {"ok"}, access : {NONE} \cup Tokens, has_refresh : {TRUE},
     refresh : {NONE} \cup Tokens, expires_in : Lifetimes]
    \cup [st : {"ok"}, access : {NONE} \cup Tokens, has_refresh : {FALSE},
          refresh : {NONE}, expires_in : Lifetimes]
    \cup [st : {"fail", "exc"}, access : {NONE}, has_refresh : {FALSE},
          refresh : {NONE}, expires_in : {NONE}]

\* what a 200 token response held besides the access token: the refresh token
\* it supplied and the lifetime it declared (NONE: none)
Answer(resp) ==
    [supplied |-> IF resp.has_refresh THEN resp.refresh ELSE NONE,
     declared |-> resp.expires_in]

NoAnswer == [supplied |-> NONE, declared |-> NONE]

\* the bug of dropping the credentials when the refresh fails
refresh_access_token_clearing(rec, t, resp) ==
    IF rec.refresh # NONE /\ resp.st = "ok"
    THEN [ok |-> TRUE,
          rec |-> save_tokens(rec, resp.access,
                              IF resp.has_refresh THEN resp.refresh ELSE rec.refresh,
                              DefaultExpiresIn, t),
          requests |-> 1, answer |-> Answer(resp)]
    ELSE [ok |-> FALSE, rec |-> clear_tokens(rec),
          requests |-> IF rec.refresh = NONE THEN 0 ELSE 1, answer |-> NoAnswer]

\* refresh_access_token: [ok, rec, requests, answer] = its return value, the
\* record it leaves, the number of HTTP requests it sent to the token endpoint
\* and what the 200 response it got held
refresh_access_token(rec, t, resp) ==
    LET refresh_token == rec.refresh IN
    IF refresh_token = NONE
    THEN [ok |-> FALSE, rec |-> rec, requests |-> 0, answer |-> NoAnswer]
    ELSE IF resp.st = "ok"
         THEN LET new_access_token  == resp.access
                  new_refresh_token == IF resp.has_refresh THEN resp.refresh
                                       ELSE refresh_token
              IN [ok  |-> TRUE,
                  rec |-> save_tokens(rec, new_access_token, new_refresh_token,
                                      DefaultExpiresIn, t),
                  requests |-> 1, answer |-> Answer(resp)]
         ELSE [ok |-> FALSE, rec |-> rec, requests |-> 1, answer |-> NoAnswer]

\* the bug a reversed comparison would be
NeedsRefreshReversed(t, expires) == t + RefreshMargin <= expires

\* the bug a strict comparison would be
NeedsRefreshStrict(t, expires) == t + RefreshMargin > expires

\* get_valid_token, line 171: time.time() + 300 >= expires
NeedsRefresh(t, expires) == t + RefreshMargin >= expires

\* what a get_valid_token call that makes no refresh attempt reports
Untouched(rec, ret) ==
    [ret |-> ret, rec |-> rec, refreshes |-> 0, refreshed |-> FALSE, requests |-> 0,
     answer |-> NoAnswer]

\* what a get_valid_token call that goes through refresh_access_token reports
Refreshing(rec, t, resp) ==
    LET r == refresh_access_token(rec, t, resp)
    IN  [ret |-> IF r.ok THEN r.rec.token ELSE NONE,
         rec |-> r.rec, refreshes |-> 1, refreshed |-> r.ok,
         requests |-> r.requests, answer |-> r.answer]

\* the bug of treating a missing expiry as an expiry that has passed
get_valid_token_expiring(rec, t, resp) ==
    IF rec.token = NONE THEN Untouched(rec, NONE)
    ELSE IF rec.expires = NONE \/ NeedsRefresh(t, rec.expires)
    THEN Refreshing(rec, t, resp)
    ELSE Untouched(rec, rec.token)

\* the bug of refreshing when no access token is stored
get_valid_token_recovering(rec, t, resp) ==
    IF rec.token = NONE THEN Refreshing(rec, t, resp)
    ELSE IF rec.expires = NONE THEN Untouched(rec, rec.token)
    ELSE IF NeedsRefresh(t, rec.expires) THEN Refreshing(rec, t, resp)
    ELSE Untouched(rec, rec.token)

\* get_valid_token: [ret, rec, refreshes, refreshed, requests] = the token
\* returned (NONE for None), the record left, the number of
\* refresh_access_token calls made, whether one returned True, and the number of
\* HTTP requests sent to the token endpoint
get_valid_token(rec, t, resp) ==
    LET token   == rec.token
        expires == rec.expires
    IN  IF token = NONE
        THEN Untouched(rec, NONE)
        ELSE IF expires = NONE
        THEN Untouched(rec, token)
        ELSE IF NeedsRefresh(t, expires)
        THEN Refreshing(rec, t, resp)
        ELSE Untouched(rec, token)

\* is_authenticated: bool(get_valid_token())
is_authenticated(rec, t, resp) == get_valid_token(rec, t, resp).ret # NONE

\* the record of one get_valid_token call; retry: the call before it was a
\* failed refresh of the same provider, and found the record this one finds
CallRecord(p, t, rec, g) ==
    [prov |-> p, at |-> t, pre |-> rec, post |-> g.rec, ret |-> g.ret,
     refreshes |-> g.refreshes, refreshed |-> g.refreshed,
     requests |-> g.requests, answer |-> g.answer,
     retry |-> /\ last.prov = p
               /\ last.refreshes = 1
               /\ ~last.refreshed
               /\ last.post = rec]

NoCall == [prov |-> "none", at |-> 0, pre |-> NoRecord, post |-> NoRecord,
           ret |-> NONE, refreshes |-> 0, refreshed |-> FALSE, requests |-> 0,
           answer |-> NoAnswer, retry |-> FALSE]

----------------------------------------------------------------------------
(* utils/helpers.py: the progress store *)

Snapshot(progress, added, total, current_track) ==
    [progress |-> progress, added |-> added, total |-> total,
     current_track |-> current_track]

ZeroSnapshot == Snapshot(0, 0, 0, "")

\* the bug of storing the added count and the total in each other's place
set_progress_swapped(store, key, progress, added, total, current_track) ==
    [k \in DOMAIN store \cup {key} |->
        IF k = key THEN Snapshot(progress, total, added, current_track)
        ELSE store[k]]

\* set_progress: transfer_progress[user_id] = {...}, under progress_lock
set_progress(store, key, progress, added, total, current_track) ==
    [k \in DOMAIN store \cup {key} |->
        IF k = key THEN Snapshot(progress, added, total, current_track)
        ELSE store[k]]

\* get_progress: transfer_progress.get(user_id, {zeros}), under progress_lock
get_progress(store, key) ==
    IF key \in DOMAIN store THEN store[key] ELSE ZeroSnapshot

\* the threads that use the store: the transfer and the polls
Readers == 1..MaxReaders

\* progress_lock when no thread holds it
Free == <<"free", 0>>

WriterIdle == [pc |-> "idle", k |-> 0]

ReaderIdle == [pc |-> "idle", ref |-> 0, got |-> <<>>]

\* the two /transfer requests that run at the same time
Racers == {1, 2}

RacerIdle == [pc |-> "idle", k |-> 0]

\* /transfer-progress has not been asked
NoPoll == [key |-> <<"none", NONE>>, got |-> ZeroSnapshot, during |-> {}]

\* the keys of a snapshot, in the order a reader of the dict meets them
Fields == <<"progress", "added", "total", "current_track">>

\* the bug of updating the dict bound to the key instead of binding a new one
StoredInPlace(h, b, snap) ==
    IF b = 0 THEN Append(h, snap) ELSE [h EXCEPT ![b] = snap]

\* set_progress, lines 16-21: a dict literal is built and bound to the key
Stored(h, b, snap) == Append(h, snap)

\* the dict a reference names; 0 names the default dict of get_progress
Deref(h, ref) == IF ref = 0 THEN ZeroSnapshot ELSE h[ref]

----------------------------------------------------------------------------
(* utils/helpers.py: sanitize_search_query.  A text is a sequence of       *)
(* characters; the characters explored are one of each class the regular   *)
(* expressions tell apart.                                                 *)

WordChars == {"a", "_"}         \* \w: the letters, the digits and the underscore
Whitespace == {" "}             \* \s
KeptChars == {"'", "-"}         \* the other characters line 57 keeps

Alphabet == WordChars \cup Whitespace \cup {"'", "(", ")", "[", "]", "!"}

Texts == UNION {[1..n -> Alphabet] : n \in 0..MaxText}

\* re.sub(open [^close]* close, '', t): from left to right, an opening
\* character is removed with everything up to the first closing character
\* after it; one with no closing character after it stays
RECURSIVE RemoveSpans(_, _, _)
RemoveSpans(t, open, close) ==
    IF t = <<>> THEN <<>>
    ELSE LET ends == {j \in 2..Len(t) : t[j] = close} IN
         IF Head(t) = open /\ ends # {}
         THEN LET j == CHOOSE e \in ends : \A k \in ends : e <= k
              IN  RemoveSpans(SubSeq(t, j + 1, Len(t)), open, close)
         ELSE <<Head(t)>> \o RemoveSpans(Tail(t), open, close)

\* line 57: re.sub(r'[^\w\s\'-]', ' ', text)
Spaced(t) ==
    [i \in 1..Len(t) |->
        IF t[i] \in WordChars \cup Whitespace \cup KeptChars THEN t[i] ELSE " "]

\* the bug of leaving the runs of whitespace as they are
KeepSpaces(t) == t

\* line 60: re.sub(r'\s+', ' ', text)
RECURSIVE CollapseSpaces(_)
CollapseSpaces(t) ==
    IF t = <<>> THEN <<>>
    ELSE IF Head(t) \notin Whitespace THEN <<Head(t)>> \o CollapseSpaces(Tail(t))
    ELSE IF Len(t) > 1 /\ t[2] \in Whitespace THEN CollapseSpaces(Tail(t))
    ELSE <<" ">> \o CollapseSpaces(Tail(t))

\* line 63: text.strip()
Strip(t) ==
    LET kept == {i \in 1..Len(t) : t[i] \notin Whitespace} IN
    IF kept = {} THEN <<>>
    ELSE SubSeq(t, CHOOSE i \in kept : \A k \in kept : i <= k,
                   CHOOSE i \in kept : \A k \in kept : k <= i)

sanitize_search_query(text) ==
    IF text = <<>> THEN <<>>
    ELSE LET unparenthesized == RemoveSpans(text, "(", ")")
             unbracketed     == RemoveSpans(unparenthesized, "[", "]")
         IN  Strip(CollapseSpaces(Spaced(unbracketed)))

\* no text was sanitized yet
NoQuery == [text |-> <<>>, once |-> <<>>, twice |-> <<>>, n |-> 0]

----------------------------------------------------------------------------
(* routes/api_routes.py and services/transfer_service.py: one /transfer    *)
(* request at a time, from the route's checks to its answer.               *)

Targets == {"tidal", "qobuz"}

\* statuses of a provider API request: a success status, another status, or
\* an exception raised by requests.get/post or by decoding the response
Statuses == {"ok", "fail", "exc"}

NoResult == [success |-> FALSE, total_tracks |-> 0 - 1, tracks_added |-> 0 - 1,
             tracks_not_found |-> 0 - 1, not_found_list |-> <<>>]

\* one provider API request: the operation, the loop index it was sent for
\* (0 - 1 outside the loop), the token in its authorization header, its
\* status, and what the adapter read in the body of a success response
\* ("-" when it read none)
Call(op, i, auth, st) ==
    [op |-> op, idx |-> i, auth |-> auth, st |-> st, body |-> "-", q |-> <<>>]

\* the search request that carries the query text q
Asking(c, q) == [c EXCEPT !.q = q]

\* the request whose response body the adapter parsed: the first candidate of
\* a search ("none", "noid", "id"), the playlist of a create ("noid", "id")
Parsed(c, b) == [c EXCEPT !.body = IF c.st = "ok" THEN b ELSE "-"]

\* adapter calls counted: listing requests, create_playlist, search_track and
\* add_track_to_playlist calls
NoneSent == [list |-> 0, create |-> 0, search |-> 0, add |-> 0]

\* the state of a worker that handles no /transfer request
XferIdle ==
    /\ pc = "idle"
    /\ http = 0
    /\ target = "tidal"
    /\ liked = FALSE
    /\ user_id = <<"none", NONE>>
    /\ runs = <<>>
    /\ headers = NONE
    /\ pages = 0
    /\ seen = 0
    /\ received = <<>>
    /\ tracks = <<>>
    /\ playlist_id_dest = ""
    /\ idx = 0
    /\ track_id = ""
    /\ added_count = 0
    /\ not_found = <<>>
    /\ result = NoResult
    /\ calls = <<>>
    /\ sent = NoneSent
    /\ written = <<>>
    /\ outcomes = <<>>
    /\ issued = <<>>
    /\ progress_lock = Free
    /\ heap = <<>>
    /\ bound = 0
    /\ writer = WriterIdle
    /\ readers = [r \in Readers |-> ReaderIdle]
    /\ query = NoQuery
    /\ racers = [t \in Racers |-> RacerIdle]
    /\ polled = NoPoll

----------------------------------------------------------------------------
(* services/tidal_service.py and services/qobuz_service.py: the destination *)
(* adapters.  Each operator gives [calls, ret, raised]: the requests sent,  *)
(* the value returned and whether an exception left the method instead.     *)

\* what the first candidate of a search response is: there is none, it has no
\* id, or it has one
Candidates == {"none", "noid", "id"}

Outcome(cs, ret, raised) == [calls |-> cs, ret |-> ret, raised |-> raised]

\* TidalService.create_playlist
tidal_create_playlist(token, st, has_id) ==
    LET c == <<Parsed(Call("create", 0 - 1, token, st),
                      IF has_id THEN "id" ELSE "noid")>> IN
    IF st # "ok" THEN Outcome(c, "", TRUE)
    ELSE IF ~has_id THEN Outcome(c, "", TRUE)
    ELSE Outcome(c, "pl", FALSE)

\* QobuzService.create_playlist: playlist_id = str(playlist_data.get('id')),
\* so a response without id gives the truthy string 'None'
qobuz_create_playlist(token, st, has_id) ==
    LET c == <<Parsed(Call("create", 0 - 1, token, st),
                      IF has_id THEN "id" ELSE "noid")>>
        playlist_id == IF has_id THEN "pl" ELSE "None"
    IN  IF st # "ok" THEN Outcome(c, "", TRUE)
        ELSE IF playlist_id = "" THEN Outcome(c, "", TRUE)
        ELSE Outcome(c, playlist_id, FALSE)

\* the bug of returning the (missing) identifier instead of raising
create_playlist_lenient(service, token, st, has_id) ==
    Outcome(<<Parsed(Call("create", 0 - 1, token, st),
                     IF has_id THEN "id" ELSE "noid")>>,
            IF st = "ok" /\ has_id THEN "pl" ELSE "", st = "exc")

create_playlist(service, token, st, has_id) ==
    IF service = "tidal" THEN tidal_create_playlist(token, st, has_id)
    ELSE qobuz_create_playlist(token, st, has_id)

\* the names the source listing holds: none, a plain one, one with
\* punctuation, one with a parenthesized part
PlainName == <<"a">>

PunctuatedName == <<"a", "!", "a">>

FeaturedName == <<"a", " ", "(", "a", ")">>

SourceTexts == {<<>>, PlainName, PunctuatedName, FeaturedName}

\* artist_name_clean, track_name_clean: sanitize_search_query of each source
\* name, computed once
Sanitized == [text \in SourceTexts |-> sanitize_search_query(text)]

\* search_query of both adapters: f'{artist_name_clean} {track_name_clean}'
\* .strip(), of the sanitized names (quote() and the params encoding change
\* no character of the alphabet but the space, one to one); computed once for
\* each pair of source names
SearchQueries ==
    [track_name \in SourceTexts |-> [artist_name \in SourceTexts |->
        Strip(Sanitized[artist_name] \o <<" ">> \o Sanitized[track_name])]]

search_query(track_name, artist_name) == SearchQueries[track_name][artist_name]

\* the path of the topHits request: f'{artist_name}%20{track_name}'
top_hits_query(track_name, artist_name) ==
    artist_name \o <<"%", "2", "0">> \o track_name

\* the bug of trying topHits also when the tracks search has no candidate
tidal_search_track_eager(i, token, st1, st2, cand, track_name, artist_name) ==
    LET primary  == Asking(Parsed(Call("search", i, token, st1), cand),
                           search_query(track_name, artist_name))
        fallback == Asking(Parsed(Call("topHits", i, token, st2), cand),
                           top_hits_query(track_name, artist_name))
        found    == IF cand = "id" THEN "tid" ELSE ""
    IN  IF st1 = "exc" THEN Outcome(<<primary>>, "", TRUE)
        ELSE IF st1 = "ok" /\ cand # "none" THEN Outcome(<<primary>>, found, FALSE)
        ELSE IF st2 = "exc" THEN Outcome(<<primary, fallback>>, "", TRUE)
        ELSE IF st2 = "ok" THEN Outcome(<<primary, fallback>>, found, FALSE)
        ELSE Outcome(<<primary, fallback>>, "", FALSE)

\* TidalService.search_track: the tracks search, then topHits when its status
\* is not 200; search_data[0].get('id') of the response kept
tidal_search_track(i, token, st1, st2, cand, track_name, artist_name) ==
    LET primary  == Asking(Parsed(Call("search", i, token, st1), cand),
                           search_query(track_name, artist_name))
        fallback == Asking(Parsed(Call("topHits", i, token, st2), cand),
                           top_hits_query(track_name, artist_name))
        found    == IF cand = "id" THEN "tid" ELSE ""
    IN  IF st1 = "exc" THEN Outcome(<<primary>>, "", TRUE)
        ELSE IF st1 = "ok" THEN Outcome(<<primary>>, found, FALSE)
        ELSE IF st2 = "exc" THEN Outcome(<<primary, fallback>>, "", TRUE)
        ELSE IF st2 = "ok" THEN Outcome(<<primary, fallback>>, found, FALSE)
        ELSE Outcome(<<primary, fallback>>, "", FALSE)

\* QobuzService.search_track: one catalog/search request;
\* str(tracks[0].get('id')) of a candidate without id is the string 'None'
qobuz_search_track(i, token, st1, cand, track_name, artist_name) ==
    LET c == <<Asking(Parsed(Call("search", i, token, st1), cand),
                      search_query(track_name, artist_name))>> IN
    IF st1 = "exc" THEN Outcome(c, "", TRUE)
    ELSE IF st1 = "ok" /\ cand # "none"
         THEN Outcome(c, IF cand = "id" THEN "tid" ELSE "None", FALSE)
    ELSE Outcome(c, "", FALSE)

search_track(service, i, token, st1, st2, cand, track_name, artist_name) ==
    IF service = "tidal"
    THEN tidal_search_track(i, token, st1, st2, cand, track_name, artist_name)
    ELSE qobuz_search_track(i, token, st1, cand, track_name, artist_name)

\* the bug of raising on a refused append (response.raise_for_status())
add_track_to_playlist_strict(i, token, st) ==
    Outcome(<<Call("add", i, token, st)>>, st = "ok", st # "ok")

\* add_track_to_playlist (both adapters): status in [200, 201, 204]
add_track_to_playlist(i, token, st) ==
    LET c == <<Call("add", i, token, st)>> IN
    IF st = "exc" THEN Outcome(c, FALSE, TRUE) ELSE Outcome(c, st = "ok", FALSE)

----------------------------------------------------------------------------
(* services/transfer_service.py: the pieces of transfer_playlist *)

\* What the source holds for a track (a track is named by its position in the
\* listing): its 'name', which the sanitizer changes for the tracks at odd
\* positions, and its 'artists', a list of names that is empty for every third
\* track, from the second on.
TrackName(track) == IF track % 2 = 1 THEN PunctuatedName ELSE PlainName

TrackArtists(track) == IF track % 3 = 2 THEN <<>> ELSE <<FeaturedName>>

\* line 63: track.get('name', '')
track_name_of(track) == TrackName(track)

\* the bug of a placeholder artist for a track without artists
artist_name_unknown(track) ==
    IF TrackArtists(track) # <<>> THEN TrackArtists(track)[1] ELSE PlainName

\* line 64: track['artists'][0]['name'] if track.get('artists') else ''
artist_name_of(track) ==
    IF TrackArtists(track) # <<>> THEN TrackArtists(track)[1] ELSE <<>>

\* one adapter call of the loop: the operation, the index of the source track
\* it is for and the destination identifier returned (search) or passed (add)
Issued(op, i, id) == [op |-> op, idx |-> i, id |-> id]

\* the bug of appending whatever the search returned
FoundAlways(id) == TRUE

\* line 73: if track_id
Found(id) == id # ""

\* the bug of counting the tracks of the checkpoint from 1
CheckpointDueFromOne(i) == (i + 1) % CheckpointEvery = 0

\* line 67: if idx % 20 == 0
CheckpointDue(i) == i % CheckpointEvery = 0

\* round(a / b) as Python computes it: to the nearest integer, a tie to the
\* even one
RoundHalfEven(a, b) ==
    LET q == a \div b
        r == a % b
    IN  IF 2 * r < b THEN q
        ELSE IF 2 * r > b THEN q + 1
        ELSE IF q % 2 = 0 THEN q ELSE q + 1

\* the bug of rounding the percentage to the nearest integer
PercentOfRounded(i, n) == RoundHalfEven(100 * (i + 1), n)

\* the bug of an off-by-one index in the percentage
PercentOfNext(i, n) == (100 * (i + 2)) \div n

\* progress = int(((idx + 1) / len(tracks)) * 100).  The double computed by
\* the code truncates to this quotient for every len(tracks) below 50.
PercentOf(i, n) == (100 * (i + 1)) \div n

\* the label appended to not_found: f'{track_name} - {artist_name}'
Label(track) == track

\* the bug of not recording a failed append
on_add_failed_dropped(nf, track) == nf

\* else-branch of `if success`: not_found.append(...)
on_add_failed(nf, track) == Append(nf, Label(track))

\* else-branch of `if track_id`: not_found.append(...)
on_not_found(nf, track) == Append(nf, Label(track))

\* the bug of calling a transfer successful only when nothing was missed
TransferResultStrict(added, nf, n) ==
    [success |-> added > 0 /\ Len(nf) = 0, total_tracks |-> n,
     tracks_added |-> added, tracks_not_found |-> Len(nf),
     not_found_list |-> SubSeq(nf, 1, IF Len(nf) < NotFoundShown THEN Len(nf)
                                      ELSE NotFoundShown)]

\* the bug of showing the last not-found tracks (not_found[-10:])
TransferResultLastOnes(added, nf, n) ==
    [success |-> added > 0, total_tracks |-> n,
     tracks_added |-> added, tracks_not_found |-> Len(nf),
     not_found_list |-> SubSeq(nf, IF Len(nf) < NotFoundShown THEN 1
                                   ELSE Len(nf) - NotFoundShown + 1, Len(nf))]

\* the bug of calling a transfer successful when no track was missed
TransferResultNoneMissed(added, nf, n) ==
    [success |-> Len(nf) = 0, total_tracks |-> n,
     tracks_added |-> added, tracks_not_found |-> Len(nf),
     not_found_list |-> SubSeq(nf, 1, IF Len(nf) < NotFoundShown THEN Len(nf)
                                      ELSE NotFoundShown)]

\* the dict returned by transfer_playlist
TransferResult(added, nf, n) ==
    [success |-> added > 0, total_tracks |-> n,
     tracks_added |-> added, tracks_not_found |-> Len(nf),
     not_found_list |-> SubSeq(nf, 1, IF Len(nf) < NotFoundShown THEN Len(nf)
                                      ELSE NotFoundShown)]

----------------------------------------------------------------------------
(* The /transfer request, step by step.  Every provider request is one     *)
(* step; its response is chosen by the environment.                        *)

\* session['tidal_owner_id'], stored by the Tidal callback
TidalOwner == <<"tidal", 1>>

\* the exception leaves transfer_playlist; the route answers 500
Raise == pc' = "failed" /\ http' = 500

\* the route answers without starting a transfer
Reject(code) == pc' = "rejected" /\ http' = code /\ UNCHANGED reqIds

\* one transfer_playlist call: its destination and the listing it reads (the
\* liked songs, or the playlist)
Run(target_service_id, playlist_id, playlist_type) ==
    [target |-> target_service_id,
     liked |-> (playlist_id = "liked" \/ playlist_type = "liked")]

\* routes/api_routes.py transfer_playlist, up to the call of
\* TransferService.transfer_playlist
Request(playlist_id, playlist_type, target_service_id, r1, r2) ==
    /\ pc = "idle"
    /\ LET gs == get_valid_token(session["spotify"], now, r1)
           s1 == [session EXCEPT !["spotify"] = gs.rec]
       IN  IF gs.ret = NONE
           THEN /\ session' = s1
                /\ last' = CallRecord("spotify", now, session["spotify"], gs)
                /\ Reject(401)
           ELSE IF playlist_id = ""
           THEN /\ session' = s1
                /\ last' = CallRecord("spotify", now, session["spotify"], gs)
                /\ Reject(400)
           ELSE IF target_service_id \notin Targets
           THEN /\ session' = s1
                /\ last' = CallRecord("spotify", now, session["spotify"], gs)
                /\ Reject(400)
           ELSE LET gt == get_valid_token(s1[target_service_id], now, r2)
                    s2 == [s1 EXCEPT ![target_service_id] = gt.rec]
                    \* QobuzService.get_owner_id: f"qobuz_{hash(token)}"
                    go == get_valid_token(s2[target_service_id], now, r2)
                    s3 == [s2 EXCEPT ![target_service_id] = go.rec]
                IN  IF gt.ret = NONE
                    THEN /\ session' = s2
                         /\ last' = CallRecord(target_service_id, now,
                                               s1[target_service_id], gt)
                         /\ Reject(401)
                    ELSE IF target_service_id = "tidal"
                    THEN /\ session' = s2
                         /\ last' = CallRecord(target_service_id, now,
                                               s1[target_service_id], gt)
                         /\ pc' = "reset"
                         /\ http' = 0
                         /\ target' = target_service_id
                         /\ liked' = (playlist_id = "liked" \/ playlist_type = "liked")
                         /\ user_id' = TidalOwner
                         /\ runs' = Append(runs, Run(target_service_id, playlist_id,
                                                     playlist_type))
                    ELSE /\ session' = s3
                         /\ last' = CallRecord(target_service_id, now,
                                               s2[target_service_id], go)
                         /\ pc' = "reset"
                         /\ http' = 0
                         /\ target' = target_service_id
                         /\ liked' = (playlist_id = "liked" \/ playlist_type = "liked")
                         /\ user_id' = <<"qobuz", go.ret>>
                         /\ runs' = Append(runs, Run(target_service_id, playlist_id,
                                                     playlist_type))
    /\ UNCHANGED <<now, ticks, auths, cleared, sideVars, srcVars, loopVars, obsVars>>

\* the bug of starting a transfer on the snapshot the previous one left
ResetSkipped ==
    /\ pc = "reset"
    /\ pc' = "fetch"
    /\ UNCHANGED <<tokVars, sideVars, http, reqIds, srcVars, loopVars, obsVars>>

\* transfer_playlist, line 38: set_progress(user_id, 0, 0, 0, '')
Reset ==
    /\ pc = "reset"
    /\ transfer_progress' = set_progress(transfer_progress, user_id, 0, 0, 0, "")
    /\ written' = Append(written, 0)
    /\ pc' = "fetch"
    /\ UNCHANGED <<tokVars, sideVars, http, reqIds, srcVars, loopVars, calls,
                   sent, outcomes, issued>>

\* SpotifyService.get_playlist_tracks, lines 124-125: headers, tracks = []
SourceHeaders(resp) ==
    /\ pc = "fetch"
    /\ LET g == get_valid_token(session["spotify"], now, resp) IN
       /\ session' = [session EXCEPT !["spotify"] = g.rec]
       /\ last' = CallRecord("spotify", now, session["spotify"], g)
       /\ headers' = g.ret
    /\ tracks' = <<>>
    /\ pc' = IF liked THEN "pages" ELSE "meta"
    /\ UNCHANGED <<now, ticks, auths, cleared, sideVars, http, reqIds, pages, seen,
                   received, loopVars, obsVars>>

\* get_playlist_tracks, lines 160-169: the playlist itself, for its name
FetchMeta(st) ==
    /\ pc = "meta"
    /\ calls' = Append(calls, Call("meta", 0 - 1, headers, st))
    /\ sent' = [sent EXCEPT !.list = @ + 1]
    /\ IF st = "ok" THEN pc' = "pages" /\ http' = http ELSE Raise
    /\ UNCHANGED <<tokVars, sideVars, reqIds, srcVars, loopVars,
                   transfer_progress, written, outcomes, issued>>

\* the items of one page: TRUE for an item with a track, FALSE for one whose
\* track is null
PageItems(n) == UNION {[1..k -> BOOLEAN] : k \in 0..n}

\* the bug of keeping the items whose track is null
PageTracksUnfiltered(items, base) == [k \in 1..Len(items) |-> base + k]

\* the tracks of a page, in page order, null entries dropped; a track is
\* named by the position of its item in the whole listing
RECURSIVE PageTracks(_, _)
PageTracks(items, base) ==
    IF items = <<>> THEN <<>>
    ELSE LET rest == PageTracks(Tail(items), base + 1) IN
         IF Head(items) THEN <<base + 1>> \o rest ELSE rest

\* the bug of going on until a page comes back empty, whatever `next` says
LastPageWhenEmpty(items, has_next) == items = <<>>

\* the bug of a listing loop that has no break
LastPageNever(items, has_next) == FALSE

\* get_playlist_tracks, lines 147-148 and 154-155 (187-188 and 194-195):
\* `if not items: break` and `if data.get('next') is None: break`
LastPage(items, has_next) == items = <<>> \/ ~has_next

\* the bug of stopping the listing at a failed page and keeping what was read
PageFailedLenient == pc' = "create" /\ http' = http

\* get_playlist_tracks, lines 141-142 and 181-182: raise Exception(...)
PageFailed == Raise

\* get_playlist_tracks, one turn of `while True` (135-157 liked songs,
\* 175-197 playlist); listings of at most cap items are explored
FetchPage(st, items, has_next, cap) ==
    /\ pc = "pages"
    /\ pages < MaxPages
    /\ seen + Len(items) <= cap
    /\ has_next => pages + 1 < MaxPages
    /\ calls' = Append(calls, Call("page", 0 - 1, headers, st))
    /\ sent' = [sent EXCEPT !.list = @ + 1]
    /\ IF st # "ok"
       THEN PageFailed /\ UNCHANGED <<pages, seen, received, tracks>>
       ELSE /\ pages' = pages + 1
            /\ seen' = seen + Len(items)
            /\ received' = Append(received, [items |-> items, next |-> has_next])
            /\ http' = http
            /\ tracks' = tracks \o PageTracks(items, seen)
            /\ pc' = IF LastPage(items, has_next) THEN "create" ELSE "pages"
    /\ UNCHANGED <<tokVars, sideVars, reqIds, headers, loopVars,
                   transfer_progress, written, outcomes, issued>>

\* the bug of reusing the playlist an earlier transfer created, instead of
\* creating one
CreatePlaylistReusing(resp, st, has_id) ==
    /\ pc = "create"
    /\ IF sent.create > 0
       THEN /\ pc' = "loop"
            /\ playlist_id_dest' = "pl"
            /\ UNCHANGED <<session, last, calls, sent, http>>
       ELSE LET g == get_valid_token(session[target], now, resp)
                o == create_playlist(target, g.ret, st, has_id)
            IN  /\ session' = [session EXCEPT ![target] = g.rec]
                /\ last' = CallRecord(target, now, session[target], g)
                /\ calls' = calls \o o.calls
                /\ sent' = [sent EXCEPT !.create = @ + 1]
                /\ IF o.raised
                   THEN Raise /\ UNCHANGED playlist_id_dest
                   ELSE pc' = "loop" /\ http' = http /\ playlist_id_dest' = o.ret
    /\ idx' = 0
    /\ added_count' = 0
    /\ not_found' = <<>>
    /\ UNCHANGED <<now, ticks, auths, cleared, sideVars, reqIds, srcVars, track_id,
                   result, transfer_progress, written, outcomes, issued>>

\* transfer_playlist, lines 44-52: destination.create_playlist(...), then the
\* loop's locals
CreatePlaylist(resp, st, has_id) ==
    /\ pc = "create"
    /\ LET g == get_valid_token(session[target], now, resp)
           o == create_playlist(target, g.ret, st, has_id)
       IN  /\ session' = [session EXCEPT ![target] = g.rec]
           /\ last' = CallRecord(target, now, session[target], g)
           /\ calls' = calls \o o.calls
           /\ sent' = [sent EXCEPT !.create = @ + 1]
           /\ IF o.raised
              THEN Raise /\ UNCHANGED playlist_id_dest
              ELSE pc' = "loop" /\ http' = http /\ playlist_id_dest' = o.ret
    /\ idx' = 0
    /\ added_count' = 0
    /\ not_found' = <<>>
    /\ UNCHANGED <<now, ticks, auths, cleared, sideVars, reqIds, srcVars, track_id,
                   result, transfer_progress, written, outcomes, issued>>

\* lines 54-64: the head of one loop turn: a falsy track is skipped, any
\* other gets its progress update
LoopProgress ==
    /\ pc = "loop"
    /\ idx < Len(tracks)
    /\ IF tracks[idx + 1] = NONE
       THEN /\ idx' = idx + 1
            /\ UNCHANGED <<pc, transfer_progress, written, calls>>
       ELSE /\ LET progress == PercentOf(idx, Len(tracks)) IN
               /\ transfer_progress' = set_progress(transfer_progress, user_id,
                                                    progress, added_count,
                                                    Len(tracks), "")
               /\ written' = Append(written, progress)
            /\ calls' = <<>>
            /\ pc' = IF CheckpointDue(idx) THEN "checkpoint" ELSE "search"
            /\ idx' = idx
    /\ UNCHANGED <<tokVars, sideVars, http, reqIds, srcVars, playlist_id_dest,
                   track_id, added_count, not_found, result, sent, outcomes, issued>>

\* lines 66-68: self.destination.get_valid_token(), its value dropped
Checkpoint(resp) ==
    /\ pc = "checkpoint"
    /\ LET g == get_valid_token(session[target], now, resp) IN
       /\ session' = [session EXCEPT ![target] = g.rec]
       /\ last' = CallRecord(target, now, session[target], g)
    /\ pc' = "search"
    /\ UNCHANGED <<now, ticks, auths, cleared, sideVars, http, reqIds, srcVars,
                   loopVars, obsVars>>

\* lines 70-73 and 83-85: search_track and the branch on its value
Search(resp, st1, st2, cand) ==
    /\ pc = "search"
    /\ LET g == get_valid_token(session[target], now, resp)
           o == search_track(target, idx, g.ret, st1, st2, cand,
                             track_name_of(tracks[idx + 1]),
                             artist_name_of(tracks[idx + 1]))
       IN  /\ session' = [session EXCEPT ![target] = g.rec]
           /\ last' = CallRecord(target, now, session[target], g)
           /\ calls' = calls \o o.calls
           /\ sent' = [sent EXCEPT !.search = @ + 1]
           /\ outcomes' = IF ~o.raised /\ ~Found(o.ret) THEN Append(outcomes, "missed")
                           ELSE outcomes
           /\ issued' = Append(issued, Issued("search", idx, o.ret))
           /\ IF o.raised
              THEN Raise /\ UNCHANGED <<idx, track_id, not_found>>
              ELSE /\ http' = http
                   /\ track_id' = o.ret
                   /\ IF Found(o.ret)
                      THEN pc' = "add" /\ UNCHANGED <<idx, not_found>>
                      ELSE /\ not_found' = on_not_found(not_found, tracks[idx + 1])
                           /\ idx' = idx + 1
                           /\ pc' = "loop"
    /\ UNCHANGED <<now, ticks, auths, cleared, sideVars, reqIds, srcVars,
                   playlist_id_dest, added_count, result, transfer_progress,
                   written>>

\* lines 74-82: add_track_to_playlist and the branch on its value
Add(resp, st) ==
    /\ pc = "add"
    /\ LET g == get_valid_token(session[target], now, resp)
           o == add_track_to_playlist(idx, g.ret, st)
       IN  /\ session' = [session EXCEPT ![target] = g.rec]
           /\ last' = CallRecord(target, now, session[target], g)
           /\ calls' = calls \o o.calls
           /\ sent' = [sent EXCEPT !.add = @ + 1]
           /\ issued' = Append(issued, Issued("add", idx, track_id))
           /\ outcomes' = IF o.raised THEN outcomes
                           ELSE Append(outcomes, IF st = "ok" THEN "added"
                                                 ELSE "add_failed")
           /\ IF o.raised
              THEN Raise /\ UNCHANGED <<idx, added_count, not_found>>
              ELSE /\ http' = http
                   /\ pc' = "loop"
                   /\ idx' = idx + 1
                   /\ IF o.ret
                      THEN added_count' = added_count + 1 /\ not_found' = not_found
                      ELSE /\ not_found' = on_add_failed(not_found, tracks[idx + 1])
                           /\ added_count' = added_count
    /\ UNCHANGED <<now, ticks, auths, cleared, sideVars, reqIds, srcVars,
                   playlist_id_dest, track_id, result, transfer_progress, written>>

\* lines 87-100: the final progress update and the result; the route
\* answers 200
Finish ==
    /\ pc = "loop"
    /\ idx = Len(tracks)
    /\ transfer_progress' = set_progress(transfer_progress, user_id, 100,
                                         added_count, Len(tracks), "")
    /\ written' = Append(written, 100)
    /\ result' = TransferResult(added_count, not_found, Len(tracks))
    /\ pc' = "done"
    /\ http' = 200
    /\ UNCHANGED <<tokVars, sideVars, reqIds, srcVars, playlist_id_dest,
                   idx, track_id, added_count, not_found, calls, sent, outcomes, issued>>

\* time passes between two steps
Tick(d) ==
    /\ ticks < MaxTicks
    /\ ticks' = ticks + 1
    /\ now' = now + d
    /\ UNCHANGED <<session, auths, last, cleared, xferVars>>

\* an earlier transfer to Tidal left its last snapshot under the owner's key
LeftoverStore == [k \in {TidalOwner} |-> Snapshot(100, 1, 1, "")]

\* the user has authorized Spotify and both targets at time 0
Init ==
    /\ session = [p \in Providers |->
                    save_tokens(NoRecord, 1, 1,
                                IF p = "qobuz" THEN QobuzExpiresIn
                                ELSE DefaultExpiresIn, 0)]
    /\ now = 0
    /\ ticks = 0
    /\ auths = 0
    /\ cleared = {}
    /\ last = NoCall
    /\ transfer_progress = LeftoverStore
    /\ XferIdle


\* the length of the longest page of I, which caps the listings explored
Longest(I) == CHOOSE n \in {Len(x) : x \in I} : \A x \in I : Len(x) <= n

\* the steps of a /transfer request, with the answers the environment may
\* give: R of the token endpoint, S the statuses of provider requests, C the
\* first candidates of a search, I the pages of a listing
Transfer(R, S, C, I) ==
    \/ \E playlist_id \in {"", "liked", "p1"}, playlist_type \in {"playlist", "liked"},
          target_service_id \in Targets \cup {"other"}, r1 \in R, r2 \in R :
          Request(playlist_id, playlist_type, target_service_id, r1, r2)
    \/ Reset
    \/ \E resp \in R : SourceHeaders(resp)
    \/ \E st \in S : FetchMeta(st)
    \/ \E st \in S, items \in I, has_next \in BOOLEAN :
          FetchPage(st, items, has_next, Longest(I))
    \/ \E resp \in R, st \in S, has_id \in BOOLEAN : CreatePlaylist(resp, st, has_id)
    \/ LoopProgress
    \/ \E resp \in R : Checkpoint(resp)
    \/ \E resp \in R, st1 \in S, st2 \in S, cand \in C : Search(resp, st1, st2, cand)
    \/ \E resp \in R, st \in S : Add(resp, st)
    \/ Finish

\* the token endpoint refuses
Refusal == [st |-> "fail", access |-> NONE, has_refresh |-> FALSE, refresh |-> NONE,
            expires_in |-> NONE]

\* A transfer that ends before the tokens come within the refresh margin: no
\* time passes, and get_valid_token never consults the token endpoint.
Next == Transfer({Refusal}, Statuses, Candidates, PageItems(MaxItems))

Spec == Init /\ [][Next]_vars

\* A transfer that outlasts its tokens: time passes between the steps, the
\* token endpoint renews the token or refuses, and every provider request
\* succeeds.
Renewal == [st |-> "ok", access |-> MaxToken, has_refresh |-> FALSE, refresh |-> NONE,
            expires_in |-> NONE]

FullPages(n) == {[i \in 1..k |-> TRUE] : k \in 0..n}

\* the loop is what lasts: a token lifetime less the margin passes while the
\* tracks are processed
LongTick ==
    /\ pc \in {"loop", "checkpoint", "search", "add"}
    /\ Tick(DefaultExpiresIn - RefreshMargin)

ExpiryNext ==
    \/ Transfer({Refusal, Renewal}, {"ok"}, {"id"}, FullPages(MaxItems))
    \/ LongTick

ExpirySpec == Init /\ [][ExpiryNext]_vars

\* A transfer of 40 tracks whose destination token comes within the refresh
\* margin as track 21 (idx 20) begins; the token endpoint renews it, and the
\* destination finds and adds every track.
ScenarioTracks == 2 * CheckpointEvery

ScenarioPage == {[i \in 1..ScenarioTracks |-> TRUE]}

ExpiryAtCheckpoint ==
    /\ pc = "loop"
    /\ idx = CheckpointEvery
    /\ Tick(DefaultExpiresIn - RefreshMargin)

CheckpointNext ==
    \/ Transfer({Renewal}, {"ok"}, {"id"}, ScenarioPage)
    \/ ExpiryAtCheckpoint

CheckpointSpec == Init /\ [][CheckpointNext]_vars

\* A transfer of a playlist with more tracks than the result shows as not
\* found: every request succeeds, and the destination finds each track or
\* has no candidate for it.
SampleTracks == NotFoundShown + 2

SamplePage == {[i \in 1..SampleTracks |-> TRUE]}

ManyMissedNext == Transfer({Refusal}, {"ok"}, {"none", "id"}, SamplePage)

ManyMissedSpec == Init /\ [][ManyMissedNext]_vars

\* routes/api_routes.py: the route answered, and the worker takes the next
\* /transfer request; the locals of the finished call are gone
Again ==
    /\ pc = "done"
    /\ Len(runs) < MaxRuns
    /\ pc' = "idle"
    /\ http' = 0
    /\ headers' = NONE
    /\ pages' = 0
    /\ seen' = 0
    /\ received' = <<>>
    /\ tracks' = <<>>
    /\ playlist_id_dest' = ""
    /\ idx' = 0
    /\ track_id' = ""
    /\ added_count' = 0
    /\ not_found' = <<>>
    /\ result' = NoResult
    /\ calls' = <<>>
    /\ written' = <<>>
    /\ outcomes' = <<>>
    /\ issued' = <<>>
    /\ UNCHANGED <<tokVars, sideVars, reqIds, transfer_progress, sent>>

\* Transfers one after the other, of listings of up to RepeatItems tracks, in
\* which every provider request succeeds and every track is found.
RepeatItems == MaxItems - 1

RepeatNext ==
    \/ Transfer({Refusal}, {"ok"}, {"id"}, FullPages(RepeatItems))
    \/ Again

RepeatSpec == Init /\ [][RepeatNext]_vars

----------------------------------------------------------------------------
(* The token lifecycle on its own: authorization callbacks, the clock and  *)
(* get_valid_token calls of any request.                                   *)

TickSteps == {1, DefaultExpiresIn - RefreshMargin - 1}

TokenInit ==
    /\ session = [p \in Providers |-> NoRecord]
    /\ now = 0
    /\ ticks = 0
    /\ auths = 0
    /\ cleared = {}
    /\ last = NoCall
    /\ transfer_progress = << >>
    /\ XferIdle

\* routes/auth_routes.py spotify_callback / tidal_callback: the token response
\* is saved whatever it holds, with expires_in=3600
Authorize(p, access, refresh) ==
    /\ auths < MaxAuths
    /\ auths' = auths + 1
    /\ session' = [session EXCEPT
                     ![p] = save_tokens(session[p], access, refresh,
                                        DefaultExpiresIn, now)]
    /\ cleared' = cleared \ {p}
    /\ UNCHANGED <<now, ticks, last, xferVars>>

\* some request calls get_valid_token of provider p
CallGetValidToken(p, resp) ==
    LET g == get_valid_token(session[p], now, resp) IN
    /\ last' = CallRecord(p, now, session[p], g)
    /\ session' = [session EXCEPT ![p] = g.rec]
    /\ UNCHANGED <<now, ticks, auths, cleared, xferVars>>

TokenNext ==
    \/ \E p \in TokenProviders, a \in {NONE} \cup Tokens, r \in {NONE} \cup Tokens :
          Authorize(p, a, r)
    \/ \E d \in TickSteps : Tick(d)
    \/ \E p \in TokenProviders, resp \in RefreshResponses : CallGetValidToken(p, resp)

TokenSpec == TokenInit /\ [][TokenNext]_vars

\* routes/auth_routes.py disconnect_spotify / disconnect_tidal /
\* disconnect_qobuz: <service>.clear_tokens()
Disconnect(p) ==
    /\ session' = [session EXCEPT ![p] = clear_tokens(session[p])]
    /\ cleared' = cleared \cup {p}
    /\ UNCHANGED <<now, ticks, auths, last, xferVars>>

\* The user, connected to the three providers, disconnects some of them and
\* may connect again; requests go on calling get_valid_token while time
\* passes, and the token endpoint renews or refuses.
DisconnectNext ==
    \/ \E p \in Providers : Disconnect(p)
    \/ \E p \in {"spotify", "tidal"} : Authorize(p, MaxToken, MaxToken)
    \/ \E d \in TickSteps : Tick(d)
    \/ \E p \in Providers, resp \in {Refusal, Renewal} : CallGetValidToken(p, resp)

DisconnectSpec == Init /\ [][DisconnectNext]_vars

\* get_valid_token on whatever the session holds.  The session arrives with
\* the request (a cookie): its three keys are each present or not, and the
\* expiry, when present, is the one a save_tokens at time 0 wrote.
Records ==
    [token : {NONE} \cup Tokens, refresh : {NONE} \cup Tokens,
     expires : {NONE, DefaultExpiresIn}]

RecordInit ==
    /\ session \in [Providers -> Records]
    /\ \A p \in Providers \ TokenProviders : session[p] = NoRecord
    /\ now = 0
    /\ ticks = 0
    /\ auths = 0
    /\ cleared = {}
    /\ last = NoCall
    /\ transfer_progress = << >>
    /\ XferIdle

RecordNext ==
    \/ \E d \in TickSteps : Tick(d)
    \/ \E p \in TokenProviders, resp \in RefreshResponses : CallGetValidToken(p, resp)

RecordSpec == RecordInit /\ [][RecordNext]_vars

----------------------------------------------------------------------------
(* sanitize_search_query on any text, and on a text it has cleaned already *)

\* search_track, tidal_service.py:274-275 and qobuz_service.py:195-196
Clean ==
    /\ query.n = 0
    /\ \E text \in Texts :
          query' = [text |-> text, once |-> sanitize_search_query(text),
                    twice |-> <<>>, n |-> 1]
    /\ UNCHANGED <<tokVars, reqVars, srcVars, loopVars, obsVars, pollVars, watchVars>>

\* the cleaned name is given to sanitize_search_query again
CleanAgain ==
    /\ query.n = 1
    /\ query' = [query EXCEPT !.twice = sanitize_search_query(query.once), !.n = 2]
    /\ UNCHANGED <<tokVars, reqVars, srcVars, loopVars, obsVars, pollVars, watchVars>>

SanitizeNext ==
    \/ Clean
    \/ CleanAgain

SanitizeSpec == TokenInit /\ [][SanitizeNext]_vars

----------------------------------------------------------------------------
(* The progress store under threads: the transfer of one key calls         *)
(* set_progress while progress polls of that key call get_progress and     *)
(* then read the dict they were given (routes/api_routes.py, jsonify).     *)
(* Each thread takes one step at a time; `with progress_lock` is an        *)
(* acquire, the body and a release.                                        *)

\* the snapshots a transfer of n tracks, all of them added, hands to
\* set_progress: line 38, line 60 for each idx, line 88
WriterCall(k, n) ==
    IF k = 0 THEN Snapshot(0, 0, 0, "")
    ELSE IF k <= n THEN Snapshot(PercentOf(k - 1, n), k - 1, n, "")
    ELSE Snapshot(100, n, n, "")

ProgressInit ==
    /\ session = [p \in Providers |-> NoRecord]
    /\ now = 0
    /\ ticks = 0
    /\ auths = 0
    /\ cleared = {}
    /\ last = NoCall
    /\ transfer_progress = << >>
    /\ XferIdle

\* set_progress: with progress_lock (enter)
WriterAcquire ==
    /\ writer.pc = "idle"
    /\ writer.k <= MaxItems + 1
    /\ progress_lock = Free
    /\ progress_lock' = <<"writer", 0>>
    /\ writer' = [writer EXCEPT !.pc = "locked"]
    /\ UNCHANGED <<tokVars, reqVars, query, watchVars, srcVars, loopVars, obsVars, heap, bound, readers>>

\* set_progress: transfer_progress[user_id] = {...}
WriterStore ==
    /\ writer.pc = "locked"
    /\ LET snap == WriterCall(writer.k, MaxItems) IN
       /\ heap' = Stored(heap, bound, snap)
       /\ bound' = Len(heap')
       /\ transfer_progress' = set_progress(transfer_progress, TidalOwner,
                                            snap.progress, snap.added, snap.total,
                                            snap.current_track)
    /\ writer' = [writer EXCEPT !.pc = "stored"]
    /\ UNCHANGED <<tokVars, reqVars, query, watchVars, srcVars, loopVars, calls, sent, written,
                   outcomes, issued, progress_lock, readers>>

\* set_progress: with progress_lock (exit)
WriterRelease ==
    /\ writer.pc = "stored"
    /\ progress_lock' = Free
    /\ writer' = [pc |-> "idle", k |-> writer.k + 1]
    /\ UNCHANGED <<tokVars, reqVars, query, watchVars, srcVars, loopVars, obsVars, heap, bound, readers>>

\* get_progress: with progress_lock (enter)
ReaderAcquire(r) ==
    /\ readers[r].pc = "idle"
    /\ progress_lock = Free
    /\ progress_lock' = <<"reader", r>>
    /\ readers' = [readers EXCEPT ![r].pc = "locked"]
    /\ UNCHANGED <<tokVars, reqVars, query, watchVars, srcVars, loopVars, obsVars, heap, bound, writer>>

\* get_progress: transfer_progress.get(user_id, {...}): the dict bound to the
\* key, or a new dict of zeros
ReaderGet(r) ==
    /\ readers[r].pc = "locked"
    /\ readers' = [readers EXCEPT
                     ![r].pc = "got",
                     ![r].ref = IF TidalOwner \in DOMAIN transfer_progress
                                THEN bound ELSE 0]
    /\ UNCHANGED <<tokVars, reqVars, query, watchVars, srcVars, loopVars, obsVars, progress_lock,
                   heap, bound, writer>>

\* get_progress: with progress_lock (exit), return
ReaderRelease(r) ==
    /\ readers[r].pc = "got"
    /\ progress_lock' = Free
    /\ readers' = [readers EXCEPT ![r].pc = "reading"]
    /\ UNCHANGED <<tokVars, reqVars, query, watchVars, srcVars, loopVars, obsVars, heap, bound, writer>>

\* transfer_progress_endpoint: jsonify(progress) reads the next key of the dict
ReaderRead(r) ==
    /\ readers[r].pc = "reading"
    /\ LET f   == Fields[Len(readers[r].got) + 1]
           got == Append(readers[r].got, Deref(heap, readers[r].ref)[f])
       IN  readers' = [readers EXCEPT
                         ![r].got = got,
                         ![r].pc = IF Len(got) = Len(Fields) THEN "done"
                                   ELSE "reading"]
    /\ UNCHANGED <<tokVars, reqVars, query, watchVars, srcVars, loopVars, obsVars, progress_lock,
                   heap, bound, writer>>

\* the client polls again
ReaderAgain(r) ==
    /\ readers[r].pc = "done"
    /\ readers' = [readers EXCEPT ![r] = ReaderIdle]
    /\ UNCHANGED <<tokVars, reqVars, query, watchVars, srcVars, loopVars, obsVars, progress_lock,
                   heap, bound, writer>>

ProgressNext ==
    \/ WriterAcquire
    \/ WriterStore
    \/ WriterRelease
    \/ \E r \in Readers : ReaderAcquire(r)
    \/ \E r \in Readers : ReaderGet(r)
    \/ \E r \in Readers : ReaderRelease(r)
    \/ \E r \in Readers : ReaderRead(r)
    \/ \E r \in Readers : ReaderAgain(r)

ProgressSpec == ProgressInit /\ [][ProgressNext]_vars

----------------------------------------------------------------------------
(* One /transfer request whose thread keeps running: every provider request *)
(* returns (with a response or an exception) and the route or               *)
(* transfer_playlist takes its next step.                                   *)

\* the listings without null tracks, and a first candidate that has an id
\* when there is one
LiveNext == Transfer({Refusal}, Statuses, {"none", "id"}, FullPages(MaxItems))

LiveSpec == Init /\ [][LiveNext]_vars /\ WF_vars(LiveNext)

----------------------------------------------------------------------------
(* Two /transfer requests of one owner served at the same time: each is a   *)
(* thread that runs transfer_playlist with the same user_id, and             *)
(* /transfer-progress is polled meanwhile.  Nothing in the route or in       *)
(* transfer_playlist makes one request wait for the other; progress_lock is  *)
(* held for the time of one set_progress or get_progress call only.          *)

\* the transfer of thread t has stored its reset and not yet returned
Running(t) == racers[t].k \in 1..(MaxItems + 1)

\* set_progress of thread t: with progress_lock (enter)
RacerAcquire(t) ==
    /\ racers[t].pc = "idle"
    /\ racers[t].k <= MaxItems + 1
    /\ progress_lock = Free
    /\ progress_lock' = <<"racer", t>>
    /\ racers' = [racers EXCEPT ![t].pc = "locked"]
    /\ UNCHANGED <<tokVars, reqVars, query, srcVars, loopVars, obsVars, heap, bound,
                   writer, readers, polled>>

\* set_progress of thread t: transfer_progress[user_id] = {...}
RacerStore(t) ==
    /\ racers[t].pc = "locked"
    /\ LET snap == WriterCall(racers[t].k, MaxItems) IN
       transfer_progress' = set_progress(transfer_progress, TidalOwner,
                                         snap.progress, snap.added, snap.total,
                                         snap.current_track)
    /\ racers' = [racers EXCEPT ![t].pc = "stored"]
    /\ UNCHANGED <<tokVars, reqVars, query, srcVars, loopVars, calls, sent, written,
                   outcomes, issued, pollVars, polled>>

\* set_progress of thread t: with progress_lock (exit)
RacerRelease(t) ==
    /\ racers[t].pc = "stored"
    /\ progress_lock' = Free
    /\ racers' = [racers EXCEPT ![t] = [pc |-> "idle", k |-> @.k + 1]]
    /\ UNCHANGED <<tokVars, reqVars, query, srcVars, loopVars, obsVars, heap, bound,
                   writer, readers, polled>>

\* the bug of a get_progress that binds the key it is asked for
store_after_get_default(store, key) ==
    [k \in DOMAIN store \cup {key} |-> IF k \in DOMAIN store THEN store[k]
                                       ELSE ZeroSnapshot]

\* transfer_progress once get_progress(key) has returned: dict.get binds
\* nothing
store_after_get(store, key) == store

\* transfer_progress_endpoint: get_progress(user_id) and the answer
Poll(key) ==
    /\ progress_lock = Free
    /\ polled' = [key |-> key, got |-> get_progress(transfer_progress, key),
                  during |-> {t \in Racers : Running(t)}]
    /\ transfer_progress' = store_after_get(transfer_progress, key)
    /\ UNCHANGED <<tokVars, reqVars, query, srcVars, loopVars, calls, sent, written,
                   outcomes, issued, pollVars, racers>>

RaceNext ==
    \/ \E t \in Racers : RacerAcquire(t)
    \/ \E t \in Racers : RacerStore(t)
    \/ \E t \in Racers : RacerRelease(t)
    \/ Poll(TidalOwner)

RaceSpec == ProgressInit /\ [][RaceNext]_vars

----------------------------------------------------------------------------
(* One transfer while /transfer-progress is asked for several keys: the key *)
(* of the Tidal owner, the key of the Qobuz user, and the key the endpoint  *)
(* falls back to when the session has no user id.                           *)

\* transfer_progress_endpoint: session.get('user_id', 'default')
DefaultKey == <<"default", NONE>>

PollKeys == {TidalOwner, DefaultKey} \cup {<<"qobuz", t>> : t \in Tokens}

KeysNext ==
    \/ Transfer({Refusal}, {"ok"}, {"id"}, FullPages(RepeatItems))
    \/ \E key \in PollKeys : Poll(key)

KeysSpec == Init /\ [][KeysNext]_vars

----------------------------------------------------------------------------
(* Properties of the transfer orchestrator *)

CountOutcome(o) == Cardinality({i \in DOMAIN outcomes : outcomes[i] = o})

CallsOf(ops) == {i \in DOMAIN calls : calls[i].op \in ops}

Occurrences(seq, x) == Cardinality({i \in DOMAIN seq : seq[i] = x})

\* the snapshot a poller of this transfer's key reads
Polled == get_progress(transfer_progress, user_id)

\* C1: every result returned by transfer_playlist has total_tracks equal to
\* the length of the source track list and to tracks_added +
\* tracks_not_found; a track is counted as added when its search gave an id
\* and its append succeeded, and as not found otherwise (search miss or
\* failed append); 3 tracks of which 2 were added give 3 / 2 / 1 and success.
ResultCountsEveryTrack ==
    result # NoResult =>
        /\ result.total_tracks = Len(tracks)
        /\ Len(outcomes) = Len(tracks)
        /\ result.tracks_added = CountOutcome("added")
        /\ result.tracks_not_found
              = CountOutcome("missed") + CountOutcome("add_failed")
        /\ result.total_tracks = result.tracks_added + result.tracks_not_found
        /\ (Len(tracks) = 3 /\ CountOutcome("added") = 2) =>
              /\ result.total_tracks = 3
              /\ result.tracks_added = 2
              /\ result.tracks_not_found = 1
              /\ result.success

\* a transfer of 3 tracks ended with 2 added and 1 append refused
ThreeTracksTwoAdded ==
    /\ pc = "done"
    /\ Len(tracks) = 3
    /\ CountOutcome("added") = 2
    /\ CountOutcome("add_failed") = 1
    /\ result.tracks_not_found = 1

\* C2: in every result, success is true exactly when tracks_added > 0,
\* whatever tracks_not_found is.
SuccessIffSomeTrackAdded ==
    result # NoResult =>
        /\ result.tracks_added = CountOutcome("added")
        /\ result.success <=> (result.tracks_added > 0)

\* a partial transfer: one track added, two not found, success
PartialSuccess ==
    /\ result # NoResult
    /\ result.success
    /\ result.tracks_added = 1
    /\ result.tracks_not_found = 2

\* C3: the percentages one transfer writes to the progress store start at 0,
\* never decrease, and end at exactly 100 when the transfer completes; the
\* store holds the last one written.
ProgressMonotone ==
    /\ written # <<>> =>
          /\ written[1] = 0
          /\ Polled.progress = written[Len(written)]
    /\ \A i \in 1..(Len(written) - 1) : written[i] <= written[i + 1]
    /\ pc = "done" => written # <<>> /\ written[Len(written)] = 100

\* a completed transfer of 3 tracks, whose steps do not divide 100
ThreeTrackProgress ==
    /\ pc = "done"
    /\ written = <<0, 33, 66, 100, 100>>

\* C4: when the destination answers create_playlist with a non-success
\* status, the transfer fails, no search_track or add_track_to_playlist call
\* is made, no result is produced, and the key's snapshot stays 0/0/0.
CreateFailureIsFatal ==
    \A i \in CallsOf({"create"}) :
        calls[i].st = "fail" =>
            /\ pc = "failed"
            /\ sent.search = 0
            /\ sent.add = 0
            /\ result = NoResult
            /\ Polled = ZeroSnapshot

\* Tidal refused the playlist of a source that has tracks; the owner's key,
\* left at 100 by an earlier transfer, reads 0/0/0
CreateRefused ==
    /\ \E i \in CallsOf({"create"}) : calls[i].st = "fail"
    /\ target = "tidal"
    /\ tracks # <<>>
    /\ pc = "failed"
    /\ Polled = ZeroSnapshot

\* C5: when a source listing request (the playlist itself or any page) gets
\* a non-success status, the transfer fails at once: that request is the last
\* one sent (no retry, no create/search/add, also when earlier pages had
\* brought tracks), no result is produced and the snapshot stays 0/0/0.
ListingFailureIsFatal ==
    \A i \in CallsOf({"meta", "page"}) :
        calls[i].st = "fail" =>
            /\ pc = "failed"
            /\ i = Len(calls)
            /\ sent = [list |-> i, create |-> 0, search |-> 0, add |-> 0]
            /\ result = NoResult
            /\ Polled = ZeroSnapshot

\* the second page of a listing failed after the first had brought tracks
LaterPageRefused ==
    /\ \E i \in CallsOf({"page"}) : calls[i].st = "fail"
    /\ pages = 1
    /\ tracks # <<>>
    /\ pc = "failed"

\* C6: each source track gets exactly one search_track call and at most one
\* add_track_to_playlist call, the latter only when the search returned an
\* id; a search miss or a refused append puts exactly one entry for the
\* track in not_found, is not retried and does not fail the transfer.
OneSearchPerTrack ==
    /\ Cardinality(CallsOf({"add"})) <= 1
    /\ pc \in {"loop", "checkpoint", "search", "add", "done"} =>
          /\ Cardinality(CallsOf({"search"})) <= 1
          /\ sent.search = Len(outcomes) + (IF pc = "add" THEN 1 ELSE 0)
          /\ sent.add = CountOutcome("added") + CountOutcome("add_failed")
          /\ idx = Len(outcomes)
          /\ added_count + Len(not_found) = idx
    /\ pc = "add" => track_id # "" /\ CallsOf({"add"}) = {}
    /\ \A i \in DOMAIN outcomes :
          Occurrences(not_found, Label(tracks[i]))
              = (IF outcomes[i] = "added" THEN 0 ELSE 1)
    /\ (pc = "failed" /\ sent.search > 0) => calls[Len(calls)].st = "exc"

\* a transfer went on to its end after a search miss and a refused append
MissAndRefusalSurvived ==
    /\ pc = "done"
    /\ outcomes = <<"missed", "add_failed", "added">>
    /\ Len(not_found) = 2

\* C7: an exception raised by a per-track search or append request is
\* recorded for the track and the transfer goes on; it does not fail.
TrackExceptionSurvived ==
    \A i \in CallsOf({"search", "topHits", "add"}) :
        calls[i].st = "exc" => pc # "failed" /\ http # 500

\* C8: once get_valid_token has returned None for a provider, at the start
\* of the transfer or during the loop, the transfer stops and no provider API
\* request is sent with the absent credential.
NoRequestWithoutToken ==
    /\ \A i \in DOMAIN calls : calls[i].auth # NONE
    /\ (last.prov # "none" /\ last.ret = NONE) => pc \in {"rejected", "failed"}

----------------------------------------------------------------------------
(* Properties of get_valid_token *)

CalledWithExpiry ==
    last.prov # "none" /\ last.pre.token # NONE /\ last.pre.expires # NONE

\* C9: with a token and an expiry stored and now + 300 < expiry,
\* get_valid_token returns the stored token, makes no refresh attempt or
\* request, and leaves the record as it was, call after call.
FreshTokenReturnedUntouched ==
    (CalledWithExpiry /\ last.at + RefreshMargin < last.pre.expires) =>
        /\ last.ret = last.pre.token
        /\ last.refreshes = 0
        /\ last.requests = 0
        /\ last.post = last.pre

\* a call one second before the token enters the refresh margin
CalledJustBeforeMargin ==
    /\ CalledWithExpiry
    /\ last.at + RefreshMargin + 1 = last.pre.expires
    /\ last.ret = last.pre.token

\* C10: with a token and an expiry stored and now + 300 >= expiry,
\* get_valid_token calls refresh_access_token exactly once and returns the
\* token stored after it when it succeeded, None otherwise; a token it
\* returns never has a recorded expiry within 300 s of now.
StaleTokenRefreshedOnce ==
    /\ (CalledWithExpiry /\ last.at + RefreshMargin >= last.pre.expires) =>
          /\ last.refreshes = 1
          /\ last.requests <= 1
          /\ last.ret = (IF last.refreshed THEN last.post.token ELSE NONE)
          /\ ~last.refreshed => last.post = last.pre
    /\ (CalledWithExpiry /\ last.ret # NONE) =>
          last.at + RefreshMargin < last.post.expires

\* a call exactly at the margin, whose refresh brought another token
RefreshedAtTheMargin ==
    /\ CalledWithExpiry
    /\ last.at + RefreshMargin = last.pre.expires
    /\ last.refreshed
    /\ last.ret # NONE
    /\ last.ret # last.pre.token

\* C11: a get_valid_token call whose refresh fails (no refresh token stored,
\* a non-200 answer or an exception) returns None and leaves the token, the
\* refresh token and the expiry as they were; the next call on that record
\* attempts the refresh again and never returns the stale token.
FailedRefreshLeavesRecord ==
    /\ (last.prov # "none" /\ last.refreshes = 1 /\ ~last.refreshed) =>
          /\ last.ret = NONE
          /\ last.post = last.pre
    /\ last.retry =>
          /\ last.refreshes = 1
          /\ last.refreshed \/ last.ret = NONE

\* two calls in a row whose refresh request was refused
RefusedTwiceInARow ==
    /\ last.retry
    /\ last.pre.token # NONE
    /\ last.requests = 1
    /\ ~last.refreshed
    /\ last.ret = NONE
    /\ last.post = last.pre

\* C12: a successful refresh replaces the stored refresh token only when the
\* 200 response supplies a non-empty one; when the response omits it or gives
\* a null or empty one the stored refresh token is kept, so the record still
\* has one for a later refresh.
RefreshTokenKeptUnlessSupplied ==
    last.refreshed =>
        /\ last.post.refresh = (IF last.answer.supplied # NONE
                                THEN last.answer.supplied
                                ELSE last.pre.refresh)
        /\ last.post.refresh # NONE

\* a refresh brought another access token and no refresh token
RefreshedWithoutNewRefreshToken ==
    /\ last.refreshed
    /\ last.answer.supplied = NONE
    /\ last.post.token # last.pre.token
    /\ last.post.refresh = last.pre.refresh

\* C13: a successful refresh sets the expiry to now + the expires_in of the
\* refresh response, and to now + 3600 only when the response declares none.
RefreshHonoursDeclaredLifetime ==
    last.refreshed =>
        last.post.expires = last.at + (IF last.answer.declared # NONE
                                       THEN last.answer.declared
                                       ELSE DefaultExpiresIn)

\* C14: a record with an access token and no expiry stays valid whatever the
\* time and however many calls are made: get_valid_token returns the stored
\* token, makes no refresh attempt or request, and the record is never
\* changed.
NoExpiryMeansValidForever ==
    \A p \in TokenProviders :
        (session[p].token # NONE /\ session[p].expires = NONE /\ last.prov = p) =>
            /\ last.pre = session[p]
            /\ last.post = session[p]
            /\ last.ret = session[p].token
            /\ last.refreshes = 0
            /\ last.requests = 0

\* a token without expiry, returned by a call made after the default lifetime
\* less the margin has passed, while a refresh token was at hand
ReturnedWithoutExpiryLate ==
    /\ last.prov # "none"
    /\ last.pre.token # NONE
    /\ last.pre.expires = NONE
    /\ last.pre.refresh # NONE
    /\ last.at + RefreshMargin >= DefaultExpiresIn
    /\ last.ret = last.pre.token

\* C15: with no access token stored, get_valid_token returns None, makes no
\* refresh attempt or request and leaves the record as it was, even when a
\* refresh token and an expiry are stored; is_authenticated is then False.
NoTokenMeansAbsent ==
    /\ (last.prov # "none" /\ last.pre.token = NONE) =>
          /\ last.ret = NONE
          /\ last.refreshes = 0
          /\ last.requests = 0
          /\ last.post = last.pre
    /\ \A p \in TokenProviders, resp \in RefreshResponses :
          session[p].token = NONE => ~is_authenticated(session[p], now, resp)

\* a call that found a refresh token and a passed expiry, but no access token
AbsentDespiteRefreshToken ==
    /\ last.prov # "none"
    /\ last.pre.token = NONE
    /\ last.pre.refresh # NONE
    /\ last.pre.expires # NONE
    /\ last.at + RefreshMargin >= last.pre.expires
    /\ last.ret = NONE

----------------------------------------------------------------------------
(* Properties of long transfers and of the source listing *)

\* the token Tidal issued at authorization is within the refresh margin
Windowed == target = "tidal" /\ NeedsRefresh(now, DefaultExpiresIn)

\* C16: in a transfer of 40 tracks whose destination token enters the
\* refresh margin at track 21 and whose refresh succeeds, the checkpoint of
\* track 21 renews the token before that track's search and append, every
\* destination request for tracks 21..40 carries the renewed token, and none
\* of these tracks is recorded as not found.
RenewedAtCheckpoint ==
    (/\ Windowed
     /\ \/ pc \in {"search", "add", "done"}
        \/ pc = "loop" /\ idx > CheckpointEvery) =>
        /\ session[target].token = Renewal.access
        /\ ~NeedsRefresh(now, session[target].expires)
        /\ (pc = "search" /\ idx = CheckpointEvery) =>
              /\ last.prov = target
              /\ last.refreshed
              /\ calls = <<>>
        /\ \A i \in DOMAIN calls :
              calls[i].idx >= CheckpointEvery => calls[i].auth = Renewal.access
        /\ \A i \in (CheckpointEvery + 1)..Len(outcomes) : outcomes[i] = "added"
        /\ not_found = <<>>
        /\ pc = "done" =>
              /\ result.tracks_added = ScenarioTracks
              /\ result.tracks_not_found = 0

\* the 40-track transfer to Tidal ended after the token was renewed at
\* track 21
FortyTracksAfterRenewal ==
    /\ pc = "done"
    /\ Windowed
    /\ Len(tracks) = ScenarioTracks
    /\ session["tidal"].token = Renewal.access
    /\ session["tidal"].expires = (DefaultExpiresIn - RefreshMargin) + DefaultExpiresIn
    /\ result.tracks_added = ScenarioTracks

\* C17: the destination calls of the loop are made one after the other in
\* source order: the calls for track i all come before the search for any
\* track j > i, an append comes right after the search of its own track and
\* only when that search returned an id, and the tracks appended are a
\* subsequence of the source list.
SequentialInSourceOrder ==
    /\ \A a, b \in DOMAIN issued :
          a < b =>
              /\ issued[a].idx <= issued[b].idx
              /\ issued[a].op = issued[b].op => issued[a].idx < issued[b].idx
    /\ \A b \in DOMAIN issued :
          /\ issued[b].idx \in 0..(Len(tracks) - 1)
          /\ issued[b].op = "add" =>
                /\ b > 1
                /\ issued[b - 1].op = "search"
                /\ issued[b - 1].idx = issued[b].idx
                /\ issued[b - 1].id # ""
                /\ issued[b].id = issued[b - 1].id
    /\ \A c \in CallsOf({"search", "topHits", "add"}) :
          calls[c].idx = issued[Len(issued)].idx

\* three tracks done: the first and the third appended, the second missed
AppendedFirstAndThird ==
    /\ pc = "done"
    /\ [b \in DOMAIN issued |-> <<issued[b].op, issued[b].idx>>]
          = << <<"search", 0>>, <<"add", 0>>, <<"search", 1>>,
               <<"search", 2>>, <<"add", 2>> >>

\* the items of the pages received, one after the other
RECURSIVE Flat(_)
Flat(ps) == IF ps = <<>> THEN <<>> ELSE Head(ps).items \o Flat(Tail(ps))

\* the positions, in the whole listing, of the items that carry a track
Carrying(items) ==
    SelectSeq([k \in 1..Len(items) |-> k], LAMBDA k : items[k])

\* the listing has returned to transfer_playlist
Listed == pc \in {"create", "loop", "checkpoint", "search", "add", "done"}

\* C18: on both paths of get_playlist_tracks the flattened list holds the
\* items of all pages received less those whose track is null, so its length
\* is the sum of the page sizes minus the null entries, and it keeps page
\* order, then the order within the page.
FlattenedListing ==
    LET items == Flat(received)
        nulls == Cardinality({k \in DOMAIN items : ~items[k]})
    IN  /\ seen = Len(items)
        /\ (pc = "pages" \/ Listed) =>
              /\ tracks = Carrying(items)
              /\ Len(tracks) = Len(items) - nulls

\* liked songs listed in two pages, the second item of the first page null
TwoPagesOneNull ==
    /\ pc = "create"
    /\ liked
    /\ Len(received) = 2
    /\ received[1].items = <<TRUE, FALSE>>
    /\ received[2].items = <<TRUE>>
    /\ tracks = <<1, 3>>

\* the pages whose response said there is no next page
NoNextAt == {k \in DOMAIN received : ~received[k].next}

\* C19 as stated: once the listing is over, it went exactly one page beyond
\* the page on which the provider signalled no next page.
HaltsOnePageAfterNoNext ==
    (Listed /\ NoNextAt # {}) =>
        \E k \in NoNextAt :
            /\ \A j \in NoNextAt : k <= j
            /\ Len(received) = k + 1

\* C19: in both loops of get_playlist_tracks the pagination halts at the
\* first page whose response signals no next page or holds no items: every
\* page before it had items and a next, and no page is requested after it.
HaltsAtNoNextOrEmptyPage ==
    /\ \A k \in DOMAIN received :
          k < Len(received) => received[k].next /\ received[k].items # <<>>
    /\ pc = "pages" =>
          \A k \in DOMAIN received : received[k].next /\ received[k].items # <<>>
    /\ Listed =>
          /\ received # <<>>
          /\ \/ ~received[Len(received)].next
             \/ received[Len(received)].items = <<>>
          /\ pages = Len(received)
          /\ sent.list = Len(received) + (IF liked THEN 0 ELSE 1)

\* a playlist whose second page, not empty, signalled no next page
HaltedAtSecondPage ==
    /\ pc = "create"
    /\ ~liked
    /\ Len(received) = 2
    /\ received[2].items # <<>>
    /\ ~received[2].next

----------------------------------------------------------------------------
(* Properties of the progress store under threads *)

\* the snapshot made of the values a reader has read
SnapshotRead(got) == Snapshot(got[1], got[2], got[3], got[4])

\* C20: with one transfer writing a key and polls reading it in any
\* interleaving, what a poll reads is the default zero snapshot when the key
\* had not been written, and otherwise the four fields of one single
\* set_progress call, never fields of two calls; the store always binds the
\* key to the snapshot of the last completed write and one thread at most is
\* inside the lock.
SnapshotsNeverMixed ==
    /\ \A r \in Readers :
          LET whole == IF readers[r].ref = 0 THEN ZeroSnapshot
                       ELSE WriterCall(readers[r].ref - 1, MaxItems)
          IN  /\ readers[r].ref \in 0..Len(heap)
              /\ \A i \in DOMAIN readers[r].got :
                    readers[r].got[i] = whole[Fields[i]]
              /\ readers[r].pc = "done" => SnapshotRead(readers[r].got) = whole
              /\ readers[r].pc = "got" =>
                    (readers[r].ref = 0 <=> TidalOwner \notin DOMAIN transfer_progress)
    /\ DOMAIN transfer_progress \subseteq {TidalOwner}
    /\ bound > 0 =>
          /\ TidalOwner \in DOMAIN transfer_progress
          /\ get_progress(transfer_progress, TidalOwner) = WriterCall(bound - 1, MaxItems)
          /\ Deref(heap, bound) = WriterCall(bound - 1, MaxItems)
    /\ bound = 0 => get_progress(transfer_progress, TidalOwner) = ZeroSnapshot
    /\ Cardinality({r \in Readers : readers[r].pc \in {"locked", "got"}})
          + (IF writer.pc \in {"locked", "stored"} THEN 1 ELSE 0)
          = (IF progress_lock = Free THEN 0 ELSE 1)

\* a poll finished reading an earlier snapshot after two later writes, while
\* another poll had read the zero default
ReadAcrossWrites ==
    \E r, q \in Readers :
        /\ readers[r].pc = "done"
        /\ readers[r].ref > 0
        /\ bound >= readers[r].ref + 2
        /\ readers[q].pc = "done"
        /\ readers[q].ref = 0

----------------------------------------------------------------------------
(* Properties of the destination adapters *)

\* the requests of the current loop turn whose response body was parsed as b
ParsedAs(ops, b) == {k \in DOMAIN calls : calls[k].op \in ops /\ calls[k].body = b}

\* C21: for every destination adapter (Tidal and Qobuz), when the search
\* request succeeds but its top candidate has no usable identifier,
\* search_track signals not found: the orchestrator makes no append call for
\* the track and records it in the not-found list.
NoIdentifierMeansNotFound ==
    \A k \in ParsedAs({"search", "topHits"}, "noid") :
        /\ pc # "add"
        /\ \A j \in DOMAIN calls : calls[j].op # "add"
        /\ pc = "loop" =>
              /\ not_found # <<>>
              /\ not_found[Len(not_found)] = Label(tracks[calls[k].idx + 1])

\* C22: for every destination adapter (Tidal and Qobuz), when the
\* create-playlist request returns a success status but its body has no
\* playlist identifier, create_playlist fails and the transfer is aborted as
\* fatal: the route answers 500 and no search or append call is made.
MissingPlaylistIdIsFatal ==
    ParsedAs({"create"}, "noid") # {} =>
        /\ pc = "failed"
        /\ http = 500
        /\ sent.search = 0
        /\ sent.add = 0
        /\ result = NoResult

----------------------------------------------------------------------------
(* Properties of the transfer result and of the progress snapshots *)

\* the tracks (by position in the source list) that were not added
NotAdded == {i \in DOMAIN outcomes : outcomes[i] # "added"}

\* the j-th of them in source order
NthNotAdded(j) ==
    CHOOSE i \in NotAdded : Cardinality({x \in NotAdded : x < i}) = j - 1

\* C23: in every result returned by transfer_playlist, tracks_not_found
\* counts all the tracks that were not added (uncapped), and not_found_list
\* has exactly min(10, tracks_not_found) entries: the labels of the first
\* not-found tracks in source order.
NotFoundListIsFirstTen ==
    result # NoResult =>
        LET shown == IF Cardinality(NotAdded) < NotFoundShown
                     THEN Cardinality(NotAdded) ELSE NotFoundShown
        IN  /\ Len(outcomes) = Len(tracks)
            /\ result.tracks_not_found = Cardinality(NotAdded)
            /\ Len(result.not_found_list) = shown
            /\ \A j \in 1..shown :
                  result.not_found_list[j] = Label(tracks[NthNotAdded(j)])

\* twelve tracks of which only the second was added: eleven counted, the
\* first ten of them listed (tracks 1 and 3 to 11)
ElevenMissedTenShown ==
    /\ result # NoResult
    /\ Len(tracks) = SampleTracks
    /\ NotAdded = (1..SampleTracks) \ {2}
    /\ result.tracks_not_found = NotFoundShown + 1
    /\ Len(result.not_found_list) = NotFoundShown
    /\ result.not_found_list[1] = Label(tracks[1])
    /\ result.not_found_list[NotFoundShown] = Label(tracks[NotFoundShown + 1])

----------------------------------------------------------------------------
(* Properties of sanitize_search_query *)

\* C24: sanitize_search_query is idempotent (sanitizing its own output gives
\* that output again), and its output never has two consecutive spaces nor a
\* leading or trailing whitespace character.
SanitizeIdempotentAndTrimmed ==
    /\ query.n >= 1 =>
          /\ \A i \in 1..(Len(query.once) - 1) :
                ~(query.once[i] \in Whitespace /\ query.once[i + 1] \in Whitespace)
          /\ query.once # <<>> =>
                /\ query.once[1] \notin Whitespace
                /\ query.once[Len(query.once)] \notin Whitespace
    /\ query.n = 2 => query.twice = query.once

\* " a! a" (a leading space, and a punctuation mark that line 57 turns into
\* the first space of a run of two) is cleaned to "a a", and cleaning "a a"
\* again gives "a a"
CleanedTwice ==
    /\ query.n = 2
    /\ query.text = <<" ", "a", "!", " ", "a">>
    /\ query.once = <<"a", " ", "a">>
    /\ query.twice = <<"a", " ", "a">>

\* nesting depth at position m of the spans opened from position i on
Depth(t, i, m, open, close) ==
    Cardinality({k \in i..m : t[k] = open}) - Cardinality({k \in i..m : t[k] = close})

\* positions i and j hold an opening character and the closing one that
\* matches it
Matched(t, i, j, open, close) ==
    /\ i < j
    /\ t[i] = open
    /\ t[j] = close
    /\ \A k \in i..(j - 1) : Depth(t, i, k, open, close) > 0
    /\ Depth(t, i, j, open, close) = 0

\* position k is inside a parenthesized or bracketed span, nested or not
InSpan(t, k) ==
    \E i \in 1..(k - 1), j \in (k + 1)..Len(t) :
        Matched(t, i, j, "(", ")") \/ Matched(t, i, j, "[", "]")

LettersOf(t) == {k \in 1..Len(t) : t[k] \in WordChars}

\* C25: sanitize_search_query removes every parenthesized and every
\* bracketed span with its whole content, nested spans included: no letter
\* that was inside a span is in the output, so the output has at most as
\* many letters as the text has outside its spans.
NoSpanContentSurvives ==
    query.n >= 1 =>
        Cardinality(LettersOf(query.once))
            <= Cardinality({k \in LettersOf(query.text) : ~InSpan(query.text, k)})

----------------------------------------------------------------------------
(* Properties of disconnection *)

\* C26: after clear_tokens (disconnect) for a provider, and until a new
\* authorization of it, its access token, refresh token and expiry are gone,
\* get_valid_token returns absent without any refresh request (whatever the
\* token endpoint would answer) and is_authenticated is false; the
\* disconnection leaves the records of the other providers as they were.
DisconnectForgetsOneProvider ==
    [][ /\ \A p \in cleared' \ cleared :
              \A q \in Providers \ {p} : session'[q] = session[q]
        /\ \A p \in cleared' :
              /\ session'[p] = NoRecord
              /\ \A resp \in RefreshResponses :
                    LET g == get_valid_token(session'[p], now', resp) IN
                    /\ g.ret = NONE
                    /\ g.requests = 0
                    /\ g.rec = NoRecord
                    /\ ~is_authenticated(session'[p], now', resp)
        /\ (last' # last /\ last'.prov \in cleared') =>
              /\ last'.ret = NONE
              /\ last'.requests = 0
              /\ last'.post = NoRecord
      ]_vars

\* Tidal was disconnected, a later request called its get_valid_token and
\* got nothing, without a token request; Spotify and Qobuz are still
\* connected
AbsentAfterDisconnect ==
    /\ cleared = {"tidal"}
    /\ last.prov = "tidal"
    /\ last.at > 0
    /\ last.pre = NoRecord
    /\ last.ret = NONE
    /\ last.requests = 0
    /\ session["spotify"].token # NONE
    /\ session["qobuz"].token # NONE

----------------------------------------------------------------------------
(* Properties of the phases of a transfer *)

\* the transfer is fetching the source listing, or about to create
BeforeCreate == pc \in {"reset", "fetch", "meta", "pages", "create"}

\* create_playlist has returned an identifier to the transfer
PastCreate == pc \in {"loop", "checkpoint", "search", "add", "done"}

\* C27: every transfer goes through INIT, FETCHING-SOURCE,
\* CREATING-DESTINATION, PROCESSING-TRACKS and COMPLETE in this order:
\* create_playlist is called only once the whole listing has been fetched, the
\* first search_track only once create_playlist has returned an identifier,
\* and the result is returned only once every track has been processed.  A
\* transfer that gets past fetching calls create_playlist exactly once, with
\* no lookup of an existing playlist: two transfers of the same source
\* playlist create two destination playlists.
PhasesInOrderOneCreateEach ==
    /\ written # <<>> => written[1] = 0
    /\ pc = "reset" => written = <<>> /\ calls = <<>>
    /\ (pc = "create" \/ PastCreate) =>
          /\ received # <<>>
          /\ \/ ~received[Len(received)].next
             \/ received[Len(received)].items = <<>>
          /\ tracks = Carrying(Flat(received))
    /\ BeforeCreate =>
          /\ sent.create = Len(runs) - 1
          /\ playlist_id_dest = ""
          /\ issued = <<>>
          /\ result = NoResult
    /\ PastCreate =>
          /\ sent.create = Len(runs)
          /\ playlist_id_dest # ""
    /\ \A k \in DOMAIN calls :
          calls[k].op \in {"meta", "page", "create", "search", "topHits", "add"}
    /\ result # NoResult =>
          /\ pc = "done"
          /\ idx = Len(tracks)
          /\ Len(outcomes) = Len(tracks)
          /\ written[Len(written)] = 100
    /\ (pc = "done" /\ Len(runs) = 2 /\ runs[1] = runs[2]) => sent.create = 2

\* the same playlist of RepeatItems tracks was transferred to Tidal twice,
\* and Tidal was asked to create a playlist twice
TwoTransfersTwoPlaylists ==
    /\ pc = "done"
    /\ Len(runs) = 2
    /\ runs[1] = runs[2]
    /\ runs[1] = [target |-> "tidal", liked |-> FALSE]
    /\ Len(tracks) = RepeatItems
    /\ result.tracks_added = RepeatItems
    /\ sent.create = 2

\* transfer_playlist has been entered and is past its line 38
Entered == pc \in {"fetch", "meta", "pages", "create", "loop", "checkpoint",
                   "search", "add", "done", "failed"}

\* C28: the first effect of transfer_playlist is to overwrite the snapshot of
\* the user key with 0/0/0 and an empty label, before any request to the
\* source or the destination provider and whatever an earlier transfer left
\* under the key (100% for instance): once the transfer has sent its first
\* provider request, a poller of the key reads what this transfer wrote,
\* never the values of the previous one.
ResetBeforeAnyProviderCall ==
    /\ pc = "reset" => calls = <<>> /\ pages = 0 /\ issued = <<>> /\ written = <<>>
    /\ pc = "fetch" => Polled = ZeroSnapshot /\ calls = <<>> /\ issued = <<>>
    /\ Entered =>
          /\ written # <<>>
          /\ written[1] = 0
          /\ Polled.progress = written[Len(written)]
          /\ (BeforeCreate \/ Len(written) = 1) => Polled = ZeroSnapshot
          /\ Len(written) > 1 => Polled.total = Len(tracks)

\* a second transfer to Qobuz, after one that left 100% under the key, has
\* sent its first source request, and the key reads 0/0/0
SecondTransferReadsZero ==
    /\ Len(runs) = 2
    /\ runs[1].target = "qobuz"
    /\ runs[2].target = "qobuz"
    /\ pc = "pages"
    /\ calls # <<>>
    /\ Polled = ZeroSnapshot

\* the number of tracks appended among the first k of the source list
AddedAmong(k) == Cardinality({i \in 1..k : i <= Len(outcomes) /\ outcomes[i] = "added"})

TurnsWritten ==
    {k \in 2..Len(written) : ~(pc = "done" /\ k = Len(written))}

SentTo(op) == {k \in DOMAIN calls : calls[k].op = op}

\* the response search_track read its candidates from: the fallback's when
\* one was sent, the primary's otherwise
UsedResponse(k) ==
    IF SentTo("topHits") # {} THEN calls[CHOOSE j \in SentTo("topHits") : TRUE]
    ELSE calls[k]

\* the values search_track returned for the track at index i
SearchReturned(i) ==
    {issued[e].id : e \in {x \in DOMAIN issued :
                              issued[x].op = "search" /\ issued[x].idx = i}}

\* C31: in Tidal's search_track the topHits fallback request is sent exactly
\* when the primary search request does not answer with HTTP success; the
\* primary query is "<artist> <track>" of the normalized names, the fallback
\* query is built from the names as they came from the source; the value
\* returned is the id of the first candidate of the response used, and is
\* absent when that response is not a success or lists no candidate (a
\* successful primary response without candidates sends no fallback).
FallbackOnlyOnPrimaryFailure ==
    target = "tidal" =>
        \A k \in SentTo("search") :
            LET track == tracks[calls[k].idx + 1] IN
            /\ (SentTo("topHits") # {}) <=> (calls[k].st = "fail")
            /\ calls[k].q = Strip(Sanitized[artist_name_of(track)] \o <<" ">>
                                  \o Sanitized[track_name_of(track)])
            /\ \A j \in SentTo("topHits") :
                   /\ j = k + 1
                   /\ calls[j].q = artist_name_of(track) \o <<"%", "2", "0">>
                                   \o track_name_of(track)
            /\ SearchReturned(calls[k].idx) =
                   {IF UsedResponse(k).st = "ok" /\ UsedResponse(k).body = "id"
                    THEN "tid" ELSE ""}
            /\ (calls[k].st = "ok" /\ calls[k].body = "none") =>
                   /\ SentTo("topHits") = {}
                   /\ SearchReturned(calls[k].idx) = {""}

\* the primary search of a track was refused and the fallback found it: the
\* two requests carry different queries and the track goes on to be appended
FoundByFallback ==
    /\ target = "tidal"
    /\ pc = "add"
    /\ Len(calls) = 2
    /\ calls[1].op = "search" /\ calls[1].st = "fail"
    /\ calls[2].op = "topHits" /\ calls[2].st = "ok" /\ calls[2].body = "id"
    /\ calls[1].q # calls[2].q
    /\ track_id = "tid"

\* ---------------------------------------------------------------------------
\* A source track without artists
\* ---------------------------------------------------------------------------

\* the requests of the current loop turn made for a track that came without
\* artists
ForArtistless ==
    {k \in DOMAIN calls :
        /\ calls[k].op \in {"search", "topHits", "add"}
        /\ TrackArtists(tracks[calls[k].idx + 1]) = <<>>}

\* C32: a source track whose artist list is missing or empty is processed
\* with the empty string as artist name: it is searched (by its name alone),
\* and added or recorded as not found by the same answers as any other
\* track; the transfer fails during its turn only when a provider request
\* itself raises.
ArtistlessTrackLikeAnyOther ==
    \A k \in ForArtistless :
        LET track == tracks[calls[k].idx + 1]
            adds  == {j \in DOMAIN calls : calls[j].op = "add"}
        IN  /\ calls[k].op = "search" => calls[k].q = Sanitized[TrackName(track)]
            /\ calls[k].op = "topHits" =>
                   calls[k].q = <<"%", "2", "0">> \o TrackName(track)
            /\ pc = "failed" => \E j \in DOMAIN calls : calls[j].st = "exc"
            /\ pc \in {"loop", "done"} =>
                   /\ idx = calls[k].idx + 1
                   /\ Len(outcomes) = idx
                   /\ outcomes[idx] =
                          IF adds = {} THEN "missed"
                          ELSE IF \A j \in adds : calls[j].st = "ok" THEN "added"
                          ELSE "add_failed"

\* the second item of the listing has no artists: it was searched by its
\* name alone, found and appended
ArtistlessTrackAdded ==
    /\ pc = "loop"
    /\ idx >= 1
    /\ tracks[idx] = 2
    /\ TrackArtists(tracks[idx]) = <<>>
    /\ Len(calls) = 2
    /\ calls[1].op = "search" /\ calls[1].q = PlainName
    /\ calls[2].op = "add"
    /\ outcomes[idx] = "added"
    /\ added_count >= 1

\* ---------------------------------------------------------------------------
\* The characters sanitize_search_query keeps
\* ---------------------------------------------------------------------------

\* the letters and digits of the alphabet
Letters == {"a"}

IsKeptCharacter(c) == c \in Letters \cup KeptChars

IsNotWhitespace(c) == c \notin Whitespace

\* C33: outside the removed spans every character that is not a letter, a
\* digit, whitespace, an apostrophe or a hyphen is replaced by a space: the
\* cleaned text consists only of letters, digits, single spaces, apostrophes
\* and hyphens, and every letter, digit, apostrophe and hyphen outside a
\* removed span is kept, in order.
OnlyLettersDigitsQuotesHyphensKept ==
    query.n >= 1 =>
        LET spanless == RemoveSpans(RemoveSpans(query.text, "(", ")"), "[", "]") IN
        /\ \A k \in DOMAIN query.once :
               query.once[k] \in Letters \cup KeptChars \cup {" "}
        /\ \A k \in 1..(Len(query.once) - 1) :
               ~(query.once[k] = " " /\ query.once[k + 1] = " ")
        /\ SelectSeq(query.once, IsNotWhitespace) = SelectSeq(spanless, IsKeptCharacter)

\* ---------------------------------------------------------------------------
\* What a poller reads with percentage 100
\* ---------------------------------------------------------------------------

\* C34: a poller that reads percentage 100 under the key of a transfer that
\* is processing its tracks reads the final state: the snapshot with progress
\* 100 is stored only once the search and the append of the last track have
\* finished, and its 'added' is the tracks_added of the transfer's result.
HundredIsTheFinalState ==
    (PastCreate /\ Polled.progress = 100) =>
        /\ pc = "done"
        /\ Len(outcomes) = Len(tracks)
        /\ Polled.added = result.tracks_added

\* ---------------------------------------------------------------------------
\* Two transfers under one user key
\* ---------------------------------------------------------------------------

\* C35: at most one transfer writes a given user key at a time: the
\* set_progress writes of two /transfer requests with the same key do not
\* interleave, and between the reset of a transfer and its completion two
\* successive polls of the key never see the percentage decrease.
OneTransferPerKey ==
    [][/\ \A t \in Racers : \A u \in Racers \ {t} :
              (racers[t].k >= 1 /\ racers[u].k >= 1) =>
                  (racers[t].k > MaxItems + 1 \/ racers[u].k > MaxItems + 1)
       /\ \A t \in polled.during \cap polled'.during :
              polled'.got.progress >= polled.got.progress]_vars

\* ---------------------------------------------------------------------------
\* A source listing without tracks
\* ---------------------------------------------------------------------------

\* C36: a transfer whose source listing is empty completes without error: it
\* still creates the destination playlist, makes no token checkpoint, search
\* or append call, its only step after the creation is the final update, which
\* sets progress 100 with added 0 and total 0, and it returns success false,
\* total_tracks 0, tracks_added 0, tracks_not_found 0 and an empty
\* not_found_list, with status 200.
EmptyListingCompletes ==
    (PastCreate /\ Len(tracks) = 0) =>
        /\ pc \in {"loop", "done"}
        /\ sent.create = 1
        /\ sent.search = 0
        /\ sent.add = 0
        /\ issued = <<>>
        /\ outcomes = <<>>
        /\ \A k \in DOMAIN calls : calls[k].op \notin {"search", "topHits", "add"}
        /\ pc = "loop" => (written = <<0>> /\ Polled = ZeroSnapshot /\ ENABLED Finish)
        /\ pc = "done" =>
              /\ written = <<0, 100>>
              /\ Polled = Snapshot(100, 0, 0, "")
              /\ http = 200
              /\ result = [success |-> FALSE, total_tracks |-> 0,
                           tracks_added |-> 0, tracks_not_found |-> 0,
                           not_found_list |-> <<>>]

\* an empty playlist was transferred: the destination playlist exists and the
\* answer says nothing was added
EmptyListingDone ==
    /\ pc = "done"
    /\ Len(tracks) = 0
    /\ sent.create = 1
    /\ sent.list >= 1
    /\ result.success = FALSE
    /\ result.total_tracks = 0
    /\ Polled.progress = 100

\* ---------------------------------------------------------------------------
\* Termination of a transfer
\* ---------------------------------------------------------------------------

\* C37: when every provider request returns and the source listing ends,
\* every transfer_playlist call reaches COMPLETE or FAILED, after at most one
\* loop turn per source track: each track is searched at most once and
\* appended at most once, and nothing is retried.
TransferTerminates ==
    /\ [](/\ idx <= Len(tracks)
          /\ sent.search <= Len(tracks)
          /\ sent.add <= sent.search
          /\ sent.create <= 1
          /\ Len(written) <= Len(tracks) + 2
          /\ PastCreate => sent.search \in {idx, idx + 1})
    /\ (pc = "reset") ~> (pc \in {"done", "failed"})

\* a transfer of several tracks is complete: one search was made per track
TerminatedAfterOneTurnPerTrack ==
    /\ pc = "done"
    /\ Len(tracks) >= 2
    /\ idx = Len(tracks)
    /\ sent.search = Len(tracks)
    /\ Len(written) = Len(tracks) + 2

\* ---------------------------------------------------------------------------
\* The stored access token across get_valid_token calls
\* ---------------------------------------------------------------------------

\* C38: get_valid_token never erases the access token: whatever the token
\* endpoint answers to a refresh (success, refusal, exception, or a 200
\* answer without access_token), a record that held an access token before
\* the call holds a non-empty one after it, and a token the call returns is
\* the token stored.
AccessTokenNeverErased ==
    (last.prov # "none" /\ last.pre.token # NONE) =>
        /\ last.post.token # NONE
        /\ last.ret # NONE => last.ret = last.post.token

\* ---------------------------------------------------------------------------
\* The keys of the progress store
\* ---------------------------------------------------------------------------

\* C39: the operations of the progress store touch only their own key: a
\* step of the transfer with key k leaves the snapshot of every other key as
\* it was and binds no key but k; get_progress changes no snapshot and binds
\* no key, and answers the zero snapshot for a key never written; a key once
\* written is never removed.
StoreTouchedUnderOwnKeyOnly ==
    [][/\ DOMAIN transfer_progress \subseteq DOMAIN transfer_progress'
       /\ DOMAIN transfer_progress' \subseteq DOMAIN transfer_progress \cup {user_id'}
       /\ \A k \in DOMAIN transfer_progress :
              k # user_id' => transfer_progress'[k] = transfer_progress[k]
       /\ polled' # polled =>
              /\ transfer_progress' = transfer_progress
              /\ polled'.got = IF polled'.key \in DOMAIN transfer_progress
                               THEN transfer_progress[polled'.key]
                               ELSE ZeroSnapshot]_vars

\* a transfer to Qobuz is complete and the fallback key was polled: the
\* snapshot an earlier Tidal transfer left is as it was, and the polled key
\* has no entry
QobuzDoneTidalKept ==
    /\ pc = "done"
    /\ target = "qobuz"
    /\ user_id # TidalOwner
    /\ user_id \in DOMAIN transfer_progress
    /\ transfer_progress[user_id].progress = 100
    /\ TidalOwner \in DOMAIN transfer_progress
    /\ transfer_progress[TidalOwner] = LeftoverStore[TidalOwner]
    /\ polled.key = DefaultKey
    /\ polled.got = ZeroSnapshot
    /\ DefaultKey \notin DOMAIN transfer_progress

====
